---- MODULE Spec2Model ----
(***************************************************************************)
(* A model of the field-note map application: the bridged (WebView) map    *)
(* handle and its content view, the in-process (web) map handle, the       *)
(* IndexedDB overlay store and the map screen's overlay handlers.          *)
(***************************************************************************)
EXTENDS Integers, Sequences, FiniteSets, TLC

\* ------------------------------------------------------------------ bounds
\* Number of addRasterOverlay calls issued on the bridged handle.
MaxCalls == 3
\* Number of Overlay Store calls in flight at once.
MaxQueue == 2
\* Number of file imports in flight at once.
MaxImports == 1
\* Number of clock values at which a group is created.
MaxClock == 2
\* Number of groups in a rendered group list.
MaxGroups == 3
\* Number of calls of remote operations.
MaxOps == 2
\* Number of sync passes.
MaxPasses == 2
\* Number of animation frames requested by one map instance.
MaxFrames == 3
\* Number of user interactions with the overlay panel in one session.
MaxUserActions == 2

Calls == 1..MaxCalls

\* =========================================================================
\* Part 1: the bridged map handle (React Native side of the WebView bridge)
\* =========================================================================
VARIABLES
  overlayResolveRef,  \* 0 = null, c = the resolve function of call c
  pstate,             \* promise of call c: "unissued" | "pending" | "settled"
  pvalue,             \* settled value of call c: 0 = null, k = the info sent for command k
  resolveCalls,       \* how many times the resolve function of call c was invoked
  timer,              \* the setTimeout of call c: "unset" | "armed" | "fired"
  delivered,          \* the 'overlayAdded' message answering command k reached handleMessage
  slotTakenBy,        \* the call whose timer cleared the ref while it held resolve c (0: none)
  movedNotified,      \* onMapMoved was invoked
  loadedNotified,     \* onMapLoaded was invoked
  inbound             \* the message handleMessage ran for last, and whether it threw

bridgeVars == <<overlayResolveRef, pstate, pvalue, resolveCalls, timer, delivered,
                slotTakenBy, movedNotified, loadedNotified, inbound>>

NoMessage == [type |-> "", threw |-> FALSE]

\* useRef(null), no call issued yet.
InitBridge ==
  /\ overlayResolveRef = 0
  /\ pstate = [c \in Calls |-> "unissued"]
  /\ pvalue = [c \in Calls |-> 0]
  /\ resolveCalls = [c \in Calls |-> 0]
  /\ timer = [c \in Calls |-> "unset"]
  /\ delivered = [c \in Calls |-> FALSE]
  /\ slotTakenBy = [c \in Calls |-> 0]
  /\ movedNotified = FALSE
  /\ loadedNotified = FALSE
  /\ inbound = NoMessage

\* Invoking the resolve function of call c with value v: a promise settles on
\* the first invocation only, later invocations are ignored by the promise.
ResolveState(ps, c) == IF ps[c] = "pending" THEN [ps EXCEPT ![c] = "settled"] ELSE ps
ResolveValue(ps, pv, c, v) == IF ps[c] = "pending" THEN [pv EXCEPT ![c] = v] ELSE pv

\* The k-th setTimeout(…, 10000) fires after every timer armed before it.
TimerMayFire(c) == timer[c] = "armed" /\ \A d \in Calls : d < c => timer[d] = "fired"

\* addRasterOverlay(id, url): store resolve in the ref, send the command, arm the timer.
addRasterOverlay(c) ==
  /\ pstate[c] = "unissued"
  /\ \A d \in Calls : d < c => pstate[d] # "unissued"
  /\ overlayResolveRef' = c
  /\ pstate' = [pstate EXCEPT ![c] = "pending"]
  /\ timer' = [timer EXCEPT ![c] = "armed"]
  /\ UNCHANGED <<pvalue, resolveCalls, delivered, slotTakenBy, movedNotified, loadedNotified, inbound>>

\* The body of the timeout callback of call c.
TimeoutClears == overlayResolveRef # 0

\* The timeout callback of call c: if the ref is set, clear it and resolve(null),
\* where resolve is the closure's own resolve (call c's).
TimerFire(c) ==
  /\ TimerMayFire(c)
  /\ timer' = [timer EXCEPT ![c] = "fired"]
  /\ IF TimeoutClears
       THEN /\ overlayResolveRef' = 0
            /\ pstate' = ResolveState(pstate, c)
            /\ pvalue' = ResolveValue(pstate, pvalue, c, 0)
            /\ resolveCalls' = [resolveCalls EXCEPT ![c] = @ + 1]
            /\ slotTakenBy' = [slotTakenBy EXCEPT ![overlayResolveRef] = c]
       ELSE UNCHANGED <<overlayResolveRef, pstate, pvalue, resolveCalls, slotTakenBy>>
  /\ UNCHANGED <<delivered, movedNotified, loadedNotified, inbound>>

\* Message types the content view may post, plus a type no branch names, data
\* that is not JSON ("malformed") and the JSON text null.
MessageTypes == {"mapMoved", "mapLoaded", "overlayAdded", "unknown", "malformed", "null"}

\* JSON.parse(event.nativeEvent.data) throws on data that is not JSON; with the
\* JSON text null it returns null, and reading data.type throws.
ParseThrows(type) == type \in {"malformed", "null"}

\* A handler without the try block: what is thrown leaves handleMessage.
Rethrown(thrown) == thrown

\* try { ... } catch { }: nothing thrown inside leaves handleMessage.
Escapes(thrown) == FALSE

\* handleMessage for an 'overlayAdded' message carrying the info of command k.
handleOverlayAdded(k) ==
  /\ pstate[k] # "unissued"
  /\ ~delivered[k]
  /\ delivered' = [delivered EXCEPT ![k] = TRUE]
  /\ IF overlayResolveRef # 0
       THEN /\ pstate' = ResolveState(pstate, overlayResolveRef)
            /\ pvalue' = ResolveValue(pstate, pvalue, overlayResolveRef, k)
            /\ resolveCalls' = [resolveCalls EXCEPT ![overlayResolveRef] = @ + 1]
            /\ overlayResolveRef' = 0
       ELSE UNCHANGED <<overlayResolveRef, pstate, pvalue, resolveCalls>>
  /\ inbound' = [type |-> "overlayAdded", threw |-> Escapes(FALSE)]
  /\ UNCHANGED <<timer, slotTakenBy, movedNotified, loadedNotified>>

\* handleMessage for every other message.
handleOtherMessage(type) ==
  /\ type \in MessageTypes \ {"overlayAdded"}
  /\ movedNotified' = (movedNotified \/ type = "mapMoved")
  /\ loadedNotified' = (loadedNotified \/ type = "mapLoaded")
  /\ inbound' = [type |-> type, threw |-> Escapes(ParseThrows(type))]
  /\ UNCHANGED <<overlayResolveRef, pstate, pvalue, resolveCalls, timer, delivered, slotTakenBy>>

handleMessage ==
  \/ \E k \in Calls : handleOverlayAdded(k)
  \/ \E type \in MessageTypes : handleOtherMessage(type)


\* =========================================================================
\* Part 2: the renderer's style state and the two command implementations
\* =========================================================================
\* Opacities are percentages (0.8 is 80); coordinates are whole degrees.
DEFAULT_OPACITY == 80
DEFAULT_ZOOM == 13
FLY_ZOOM == 16
FLY_DURATION == 1500
FIT_PADDING == 20
MIN_RADIUS == 10
MAX_RADIUS == 100
DEFAULT_CENTER == <<139, 35>>

OverlayIds == {"a", "b"}
Coordinates == {<<135, 35>>}
NoAccuracy == -1                       \* accuracy null
Accuracies == {NoAccuracy, 50}      \* metres
NoZoom == -1                           \* zoom argument omitted
ZoomArgs == {NoZoom, 0, 16}
TileSources == {"osm", "pmtiles", "gsi-photo", "bogus", "constructor"}
Opacities == {50, DEFAULT_OPACITY}
NoBounds == <<>>

allRasterLayers == <<"osm-raster-layer", "gsi-pale-layer", "gsi-photo-layer", "gsi-hillshade-layer">>
PMTILES_LAYER_IDS ==
  <<"pm-background", "pm-earth", "pm-water", "pm-landuse-park", "pm-landuse-residential",
    "pm-buildings", "pm-roads-minor", "pm-roads-major", "pm-roads-highway",
    "pm-transit-rail", "pm-boundaries", "pm-labels-places", "pm-labels-roads">>
LocationLayers == <<"user-location-accuracy", "user-location-pulse", "user-location-dot">>

Range(seq) == {seq[i] : i \in 1..Len(seq)}

SourceId(id) == "overlay-" \o id
LayerId(id) == "overlay-" \o id \o "-layer"

\* The bounding box read from the header of overlay id's archive.
HeaderBounds(id) == IF id = "a" THEN <<130, 30, 131, 31>> ELSE <<140, 40, 141, 41>>

\* --- renderer primitives (map.getLayer, setLayoutProperty, addLayer, ...) ---
getLayer(m, id) == id \in Range(m.layers)
getSource(m, id) == id \in m.sources

setLayoutVisibility(m, id, v) == [m EXCEPT !.visibility = [@ EXCEPT ![id] = v]]

\* forEach(id => if (map.getLayer(id)) map.setLayoutProperty(id, 'visibility', v))
setVisibilityOfPresent(m, ids, v) ==
  [m EXCEPT !.visibility = [l \in DOMAIN @ |-> IF l \in Range(ids) THEN v ELSE @[l]]]

IndexOf(seq, x) == CHOOSE i \in 1..Len(seq) : seq[i] = x

\* map.addLayer(layer, before): insert below `before`, or on top when before is undefined ("").
addLayer(m, id, source, before, vis) ==
  LET at == IF before = "" THEN Len(m.layers) + 1 ELSE IndexOf(m.layers, before)
      ls == SubSeq(m.layers, 1, at - 1) \o <<id>> \o SubSeq(m.layers, at, Len(m.layers))
  IN [m EXCEPT !.layers = ls,
               !.visibility = [l \in DOMAIN @ \cup {id} |-> IF l = id THEN vis ELSE @[l]],
               !.layerSource = [l \in DOMAIN @ \cup {id} |-> IF l = id THEN source ELSE @[l]]]

removeLayer(m, id) ==
  [m EXCEPT !.layers = SelectSeq(@, LAMBDA l : l # id),
            !.visibility = [l \in DOMAIN @ \ {id} |-> @[l]],
            !.layerSource = [l \in DOMAIN @ \ {id} |-> @[l]],
            !.opacity = [l \in DOMAIN @ \ {id} |-> @[l]]]

addSource(m, id) == [m EXCEPT !.sources = @ \cup {id}]
removeSource(m, id) == [m EXCEPT !.sources = @ \ {id}]

setRasterOpacity(m, id, o) ==
  [m EXCEPT !.opacity = [l \in DOMAIN @ \cup {id} |-> IF l = id THEN o ELSE @[l]]]

\* new maplibregl.Map({style, center, zoom}): the style document of the constructor.
NewMap ==
  [sources |-> {"osm-raster", "pmtiles", "gsi-pale", "gsi-photo", "gsi-hillshade"},
   layers |-> allRasterLayers \o PMTILES_LAYER_IDS,
   visibility |-> [l \in Range(allRasterLayers) \cup Range(PMTILES_LAYER_IDS) |->
                     IF l = "osm-raster-layer" THEN "visible" ELSE "none"],
   layerSource |-> [l \in Range(allRasterLayers) \cup Range(PMTILES_LAYER_IDS) |-> "style"],
   opacity |-> [l \in {} |-> 0],
   locData |-> [coordinates |-> <<0, 0>>, accuracyRadius |-> 0],
   camera |-> [center |-> DEFAULT_CENTER, zoom |-> DEFAULT_ZOOM, duration |-> 0,
               fitted |-> NoBounds, padding |-> 0]]

\* map.on('load'): the user-location source and its three layers, all hidden.
OnLoad(m) ==
  LET m1 == addSource(m, "user-location")
      m2 == addLayer(m1, "user-location-accuracy", "user-location", "", "none")
      m3 == addLayer(m2, "user-location-pulse", "user-location", "", "none")
  IN addLayer(m3, "user-location-dot", "user-location", "", "none")

ReadyMap == OnLoad(NewMap)

\* --- the accuracy radius, in tenths of a pixel ---
\* cos(lat) in thousandths, for the latitudes of Coordinates.
CosMilli(lat) == IF lat = 35 THEN 819 ELSE IF lat = 60 THEN 500 ELSE 1000
Pow2(n) == IF n <= 0 THEN 1 ELSE 2 ^ n

\* 156543.03392 * cos(lat) / 2^zoom, in millimetres per pixel.
MetersPerPixelMilli(lat, zoom) == ((156543 * CosMilli(lat)) \div Pow2(zoom))

\* The radius without Math.min and Math.max.
UnclampedRadius(accuracy, lat, zoom) ==
  IF accuracy = NoAccuracy \/ accuracy = 0 THEN 0
  ELSE (accuracy * 10000) \div MetersPerPixelMilli(lat, zoom)

\* accuracy ? min(max(accuracy / metersPerPixel, 10), 100) : 0
ClampedRadius(accuracy, lat, zoom) ==
  LET mpp == MetersPerPixelMilli(lat, zoom)
      accMilli == accuracy * 1000
  IN IF accuracy = NoAccuracy \/ accuracy = 0 THEN 0
     ELSE IF accMilli <= MIN_RADIUS * mpp THEN MIN_RADIUS * 10
     ELSE IF accMilli >= MAX_RADIUS * mpp THEN MAX_RADIUS * 10
     ELSE (accMilli * 10) \div mpp

\* --- the in-process handle (MapView.web.tsx) ---
webUpdateLocation(m, lng, lat, accuracy) ==
  IF ~getSource(m, "user-location") THEN m
  ELSE LET m1 == [m EXCEPT !.locData = [coordinates |-> <<lng, lat>>,
                                        accuracyRadius |-> ClampedRadius(accuracy, lat, m.camera.zoom)]]
       IN setVisibilityOfPresent(m1, LocationLayers, "visible")

webFlyZoom(zoomLevel) == IF zoomLevel = NoZoom THEN FLY_ZOOM ELSE zoomLevel

webFlyToLocation(m, lng, lat, zoomLevel) ==
  [m EXCEPT !.camera = [center |-> <<lng, lat>>, zoom |-> webFlyZoom(zoomLevel),
                        duration |-> FLY_DURATION, fitted |-> NoBounds, padding |-> 0]]

\* A hideLocation that flips the location layers instead of hiding them.
ToggleLocation(m) ==
  setVisibilityOfPresent(m, LocationLayers,
                         IF m.visibility["user-location-dot"] = "none" THEN "visible" ELSE "none")

webHideLocation(m) == setVisibilityOfPresent(m, LocationLayers, "none")

\* Names every object literal inherits from Object.prototype: layerMap[name] is
\* then a function (or the prototype), which is neither null nor falsy.
ObjectPrototypeKeys == {"constructor", "toString", "valueOf", "hasOwnProperty", "__proto__"}

\* layerMap[source] ?? 'osm-raster-layer' (in the page: || 'osm-raster-layer').
\* "<inherited>" stands for an inherited member, which names no layer.
layerMap(source) ==
  IF source = "osm" THEN "osm-raster-layer"
  ELSE IF source = "gsi-pale" THEN "gsi-pale-layer"
  ELSE IF source = "gsi-photo" THEN "gsi-photo-layer"
  ELSE IF source = "gsi-hillshade" THEN "gsi-hillshade-layer"
  ELSE IF source \in ObjectPrototypeKeys THEN "<inherited>"
  ELSE "osm-raster-layer"

webSetTileSource(m, source) ==
  LET m1 == setVisibilityOfPresent(m, allRasterLayers, "none")
      m2 == setVisibilityOfPresent(m1, PMTILES_LAYER_IDS, "none")
  IN IF source = "pmtiles" THEN setVisibilityOfPresent(m2, PMTILES_LAYER_IDS, "visible")
     ELSE setVisibilityOfPresent(m2, <<layerMap(source)>>, "visible")

\* The render states a removal that takes the source away first passes through.
SourceThenLayer(m, id) ==
  LET m1 == IF getSource(m, SourceId(id)) THEN removeSource(m, SourceId(id)) ELSE m
  IN <<m1, IF getLayer(m1, LayerId(id)) THEN removeLayer(m1, LayerId(id)) ELSE m1>>

\* if (map.getLayer(layerId)) map.removeLayer(layerId);
\* if (map.getSource(sourceId)) map.removeSource(sourceId);
\* The render state after the first and after the second statement.
removeRasterOverlaySteps(m, id) ==
  LET m1 == IF getLayer(m, LayerId(id)) THEN removeLayer(m, LayerId(id)) ELSE m
  IN <<m1, IF getSource(m1, SourceId(id)) THEN removeSource(m1, SourceId(id)) ELSE m1>>

webRemoveRasterOverlay(m, id) == removeRasterOverlaySteps(m, id)[2]

webSetOverlayOpacity(m, id, opacity) ==
  IF getLayer(m, LayerId(id)) THEN setRasterOpacity(m, LayerId(id), opacity) ELSE m

\* Where addRasterOverlay may throw: reading the header, addSource, addLayer, fitBounds.
AddOutcomes == {"ok", "header", "addSource", "addLayer", "fitBounds"}

\* The overlay layer added without a layer to go before: on top.
NoBeforeLayer(m) == ""

\* const beforeLayerId = map.getLayer('user-location-accuracy') ? 'user-location-accuracy' : undefined
webBeforeLayerId(m) == IF getLayer(m, "user-location-accuracy") THEN "user-location-accuracy" ELSE ""

\* addRasterOverlay after `await p.getHeader()` returned: the rest of the try block,
\* which stops at the statement that throws; the catch block only returns null.
webAddRasterOverlayBody(m, id, outcome) ==
  LET m1 == webRemoveRasterOverlay(m, id)
      m2 == addSource(m1, SourceId(id))
      m3 == setRasterOpacity(addLayer(m2, LayerId(id), SourceId(id), webBeforeLayerId(m2), "visible"),
                             LayerId(id), DEFAULT_OPACITY)
      m4 == [m3 EXCEPT !.camera = [@ EXCEPT !.fitted = HeaderBounds(id),
                                            !.padding = FIT_PADDING,
                                            !.duration = FLY_DURATION]]
  IN IF outcome = "header" THEN m
     ELSE IF outcome = "addSource" THEN m1
     ELSE IF outcome = "addLayer" THEN m2
     ELSE IF outcome = "fitBounds" THEN m3
     ELSE m4

\* The value addRasterOverlay resolves to: the descriptor (here its id) or null ("").
webAddRasterOverlayResult(id, outcome) == IF outcome = "ok" THEN id ELSE ""

\* --- the content view (generateMapHtml) ---
NoArg == -2
Envelope(type) == [type |-> type, longitude |-> NoArg, latitude |-> NoArg, accuracy |-> NoArg,
                   zoom |-> NoArg, source |-> "", id |-> "", opacity |-> NoArg]

\* The envelopes the bridged handle passes to sendCommand.
bridgedUpdateLocation(lng, lat, accuracy) ==
  [Envelope("updateLocation") EXCEPT !.longitude = lng, !.latitude = lat,
     !.accuracy = IF accuracy = NoAccuracy THEN 0 ELSE accuracy]
bridgedFlyToLocation(lng, lat, zoom) ==
  [Envelope("flyToLocation") EXCEPT !.longitude = lng, !.latitude = lat,
     !.zoom = IF zoom = NoZoom THEN FLY_ZOOM ELSE zoom]
bridgedHideLocation == Envelope("hideLocation")
bridgedSetTileSource(source) == [Envelope("setTileSource") EXCEPT !.source = source]
bridgedAddRasterOverlay(id) == [Envelope("addRasterOverlay") EXCEPT !.id = id]
bridgedRemoveRasterOverlay(id) == [Envelope("removeRasterOverlay") EXCEPT !.id = id]
bridgedSetOverlayOpacity(id, opacity) ==
  [Envelope("setOverlayOpacity") EXCEPT !.id = id, !.opacity = opacity]

setLocationLayersVisibility(m, visibility) == setVisibilityOfPresent(m, LocationLayers, visibility)

updateUserLocation(m, lng, lat, accuracy) ==
  IF ~getSource(m, "user-location") THEN m
  ELSE LET m1 == [m EXCEPT !.locData = [coordinates |-> <<lng, lat>>,
                                        accuracyRadius |-> ClampedRadius(accuracy, lat, m.camera.zoom)]]
       IN setLocationLayersVisibility(m1, "visible")

setTileSource(m, source) ==
  LET m1 == setVisibilityOfPresent(m, allRasterLayers, "none")
      m2 == setVisibilityOfPresent(m1, PMTILES_LAYER_IDS, "none")
  IN IF source = "pmtiles" THEN setVisibilityOfPresent(m2, PMTILES_LAYER_IDS, "visible")
     ELSE setVisibilityOfPresent(m2, <<layerMap(source)>>, "visible")

\* zoom: cmd.zoom || 16
cmdFlyZoom(zoom) == IF zoom = 0 \/ zoom = NoArg THEN FLY_ZOOM ELSE zoom

\* The switch of handleCommand: a type without a case changes nothing.
handleCommand(m, cmd) ==
  IF cmd.type = "updateLocation" THEN updateUserLocation(m, cmd.longitude, cmd.latitude, cmd.accuracy)
  ELSE IF cmd.type = "flyToLocation"
    THEN [m EXCEPT !.camera = [center |-> <<cmd.longitude, cmd.latitude>>, zoom |-> cmdFlyZoom(cmd.zoom),
                               duration |-> FLY_DURATION, fitted |-> NoBounds, padding |-> 0]]
  ELSE IF cmd.type = "hideLocation" THEN setLocationLayersVisibility(m, "none")
  ELSE IF cmd.type = "setTileSource" THEN setTileSource(m, cmd.source)
  ELSE m

\* The types handleCommand has a case for.
HandledTypes == {"updateLocation", "flyToLocation", "hideLocation", "setTileSource"}

\* --- both handles side by side, driven by the same commands ---
VARIABLES
  web,                \* render state of the in-process map
  wv,                 \* render state of the map inside the content view
  currentTileSource,  \* the content view's currentTileSource
  lastHandled,        \* whether handleCommand had a case for the command sent last
  webResult,          \* what the in-process call returned: "void", "" (null) or the descriptor's id
  wvResult            \* what the bridged call returned or resolved to

eqVars == <<web, wv, currentTileSource, lastHandled, webResult, wvResult>>

\* Both maps have fired 'load' (Ready); the content view starts on 'osm'.
InitEq ==
  /\ web = ReadyMap
  /\ wv = ReadyMap
  /\ currentTileSource = "osm"
  /\ lastHandled = TRUE
  /\ webResult = "void"
  /\ wvResult = "void"

\* sendCommand(cmd): handleCommand(cmd) runs in the content view.
sendCommand(cmd) ==
  /\ wv' = handleCommand(wv, cmd)
  /\ currentTileSource' = IF cmd.type = "setTileSource" THEN cmd.source ELSE currentTileSource
  /\ lastHandled' = (cmd.type \in HandledTypes)

VoidCall(m) ==
  /\ web' = m
  /\ webResult' = "void"
  /\ wvResult' = "void"

EqUpdateLocation(lng, lat, accuracy) ==
  /\ VoidCall(webUpdateLocation(web, lng, lat, accuracy))
  /\ sendCommand(bridgedUpdateLocation(lng, lat, accuracy))

EqFlyToLocation(lng, lat, zoom) ==
  /\ VoidCall(webFlyToLocation(web, lng, lat, zoom))
  /\ sendCommand(bridgedFlyToLocation(lng, lat, zoom))

EqHideLocation ==
  /\ VoidCall(webHideLocation(web))
  /\ sendCommand(bridgedHideLocation)

EqSetTileSource(source) ==
  /\ VoidCall(webSetTileSource(web, source))
  /\ sendCommand(bridgedSetTileSource(source))

\* addRasterOverlay on both handles, each call run to its result. No case of
\* handleCommand posts an 'overlayAdded' message, so the bridged promise is
\* settled by its timeout callback: null.
EqAddRasterOverlay(id, outcome) ==
  /\ web' = webAddRasterOverlayBody(web, id, outcome)
  /\ webResult' = webAddRasterOverlayResult(id, outcome)
  /\ sendCommand(bridgedAddRasterOverlay(id))
  /\ wvResult' = ""

EqRemoveRasterOverlay(id) ==
  /\ VoidCall(webRemoveRasterOverlay(web, id))
  /\ sendCommand(bridgedRemoveRasterOverlay(id))

EqSetOverlayOpacity(id, opacity) ==
  /\ VoidCall(webSetOverlayOpacity(web, id, opacity))
  /\ sendCommand(bridgedSetOverlayOpacity(id, opacity))

\* =========================================================================
\* Part 3: the Overlay Store (IndexedDB, object store 'overlays')
\* =========================================================================
UndefNum == -1                  \* a numeric field the record lacks
UndefStr == "<undefined>"       \* a string or boolean field the record lacks
DataVals == {"d1", "d2"}        \* binary payloads
GroupIds == {"default", "g1"}
Visibles == {"true", "false"}
UpdateOps == {"updateOverlayOpacity", "updateOverlayVisibility", "updateOverlayGroup",
              "updateOverlayFilename"}

\* No record under the key.
NoRecord == [present |-> FALSE, filename |-> "", data |-> "", opacity |-> UndefNum,
             visible |-> UndefStr, groupId |-> UndefStr, timestamp |-> UndefNum]

VARIABLES
  db,          \* the object store: overlay id -> stored record (NoRecord when absent)
  dbQueue,     \* the store calls in flight, in call order
  now,         \* Date.now()
  loadResult,  \* what the last loadAllOverlays resolved to
  seqStore,    \* the records obtained by applying the completed calls one after another
  raced,       \* ids on which two field updates were in flight together
  saveCalled   \* the saveOverlay call of the round trip: its arguments and Date.now() at the call

storeVars == <<db, dbQueue, now, loadResult, seqStore, raced>>

NoLoad == [ready |-> FALSE, ok |-> FALSE, records |-> <<>>]
NoSave == [called |-> FALSE, id |-> "", filename |-> "", data |-> "", at |-> 0]

InitStoreWith(d) ==
  /\ db = d
  /\ dbQueue = <<>>
  /\ now = 0
  /\ loadResult = NoLoad
  /\ seqStore = d
  /\ raced = {}
  /\ saveCalled = NoSave

EmptyDb == [id \in OverlayIds |-> NoRecord]

\* A record written by schema version 1: no opacity, visible or groupId.
LegacyRecord(id) == [present |-> TRUE, filename |-> id, data |-> "d1", opacity |-> UndefNum,
                     visible |-> UndefStr, groupId |-> UndefStr, timestamp |-> 0]

\* The ids the callers of the store pass; "b" is a version 1 record nobody touches.
CallerIds == {"a"}
LegacyDb == [id \in OverlayIds |-> IF id \in CallerIds THEN NoRecord ELSE LegacyRecord(id)]

\* Defaults taken with || instead of ??: every falsy value is replaced.
NormalizeFalsy(record, t) ==
  [present |-> TRUE,
   filename |-> record.filename,
   data |-> record.data,
   opacity |-> IF record.opacity \in {UndefNum, 0} THEN DEFAULT_OPACITY ELSE record.opacity,
   visible |-> IF record.visible \in {UndefStr, "false"} THEN "true" ELSE record.visible,
   groupId |-> IF record.groupId = UndefStr THEN "default" ELSE record.groupId,
   timestamp |-> IF record.timestamp \in {UndefNum, 0} THEN t ELSE record.timestamp]

\* normalizeOverlay(record)
normalizeOverlay(record, t) ==
  [present |-> TRUE,
   filename |-> record.filename,
   data |-> record.data,
   opacity |-> IF record.opacity = UndefNum THEN DEFAULT_OPACITY ELSE record.opacity,
   visible |-> IF record.visible = UndefStr THEN "true" ELSE record.visible,
   groupId |-> IF record.groupId = UndefStr THEN "default" ELSE record.groupId,
   timestamp |-> IF record.timestamp = UndefNum THEN t ELSE record.timestamp]

\* A store call: the function called and its arguments; phase "open" while
\* openDB() is pending, "tx" once its transaction is created, "got" once the
\* get request of a field update has delivered `found`.
StoreCall(op, id, filename, data, opacity, visible, groupId) ==
  [op |-> op, id |-> id, filename |-> filename, data |-> data, opacity |-> opacity,
   visible |-> visible, groupId |-> groupId, phase |-> "open", found |-> NoRecord, at |-> 0]

saveOverlayCall(id, filename, data, opacity, visible, groupId) ==
  StoreCall("saveOverlay", id, filename, data, opacity, visible, groupId)
deleteOverlayCall(id) == StoreCall("deleteOverlay", id, "", "", UndefNum, UndefStr, UndefStr)
updateOverlayOpacityCall(id, opacity) ==
  StoreCall("updateOverlayOpacity", id, "", "", opacity, UndefStr, UndefStr)
updateOverlayVisibilityCall(id, visible) ==
  StoreCall("updateOverlayVisibility", id, "", "", UndefNum, visible, UndefStr)
updateOverlayGroupCall(id, groupId) ==
  StoreCall("updateOverlayGroup", id, "", "", UndefNum, UndefStr, groupId)
updateOverlayFilenameCall(id, filename) ==
  StoreCall("updateOverlayFilename", id, filename, "", UndefNum, UndefStr, UndefStr)
loadAllOverlaysCall == StoreCall("loadAllOverlays", "", "", "", UndefNum, UndefStr, UndefStr)

\* A record stamped with the epoch instead of the clock.
RecordAtEpoch(c, t) ==
  [present |-> TRUE, filename |-> c.filename, data |-> c.data, opacity |-> c.opacity,
   visible |-> c.visible, groupId |-> c.groupId, timestamp |-> 0]

\* The record saveOverlay puts.
SavedRecord(c, t) ==
  [present |-> TRUE, filename |-> c.filename, data |-> c.data, opacity |-> c.opacity,
   visible |-> c.visible, groupId |-> c.groupId, timestamp |-> t]

\* A field update that builds the record anew instead of from the one it read.
FreshRecord(c, record, t) ==
  LET updated == normalizeOverlay([record EXCEPT !.opacity = UndefNum, !.visible = UndefStr,
                                                 !.groupId = UndefStr], t)
  IN IF c.op = "updateOverlayOpacity" THEN [updated EXCEPT !.opacity = c.opacity]
     ELSE IF c.op = "updateOverlayVisibility" THEN [updated EXCEPT !.visible = c.visible]
     ELSE IF c.op = "updateOverlayGroup" THEN [updated EXCEPT !.groupId = c.groupId]
     ELSE [updated EXCEPT !.filename = c.filename]

\* updated = normalizeOverlay(record); updated.<field> = <argument>
UpdatedRecord(c, record, t) ==
  LET updated == normalizeOverlay(record, t)
  IN IF c.op = "updateOverlayOpacity" THEN [updated EXCEPT !.opacity = c.opacity]
     ELSE IF c.op = "updateOverlayVisibility" THEN [updated EXCEPT !.visible = c.visible]
     ELSE IF c.op = "updateOverlayGroup" THEN [updated EXCEPT !.groupId = c.groupId]
     ELSE [updated EXCEPT !.filename = c.filename]

\* What the call writes to a store d once its transaction has read `found` (for
\* a field update) and completes.
WriteOf(c, d, found, t) ==
  IF c.op = "saveOverlay" THEN [d EXCEPT ![c.id] = SavedRecord(c, c.at)]
  ELSE IF c.op = "deleteOverlay" THEN [d EXCEPT ![c.id] = NoRecord]
  ELSE IF c.op \in UpdateOps /\ found.present THEN [d EXCEPT ![c.id] = UpdatedRecord(c, found, t)]
  ELSE d

\* getAll() in key order, each record normalized (and given its key).
RECURSIVE RecordsOf(_, _, _)
RecordsOf(d, ids, t) ==
  IF ids = {} THEN <<>>
  ELSE LET id == CHOOSE x \in ids : \A y \in ids : x = y \/ (x = "a" /\ y = "b")
           rest == RecordsOf(d, ids \ {id}, t)
       IN IF d[id].present THEN <<[id |-> id, rec |-> normalizeOverlay(d[id], t)]>> \o rest ELSE rest

RemoveAt(q, i) == SubSeq(q, 1, i - 1) \o SubSeq(q, i + 1, Len(q))

\* Open requests on one database complete in the order they were made.
OpenMayComplete(i) == dbQueue[i].phase = "open" /\ \A j \in 1..(i - 1) : dbQueue[j].phase # "open"

\* Mutant: the get and the put of a field update in separate transactions, so
\* that another call's requests may run between them.
TxMayRunUnordered(i) == TRUE

\* Transactions whose scopes overlap (all are on 'overlays') run one at a time,
\* in the order they were created: a transaction's requests run only when every
\* transaction created before it has finished.
TxMayRun(i) == \A j \in 1..(i - 1) : dbQueue[j].phase \in {"open", "aborted"}

\* A store function is called: it calls openDB() at once.
CallStore(c) ==
  /\ Len(dbQueue) < MaxQueue
  /\ dbQueue' = Append(dbQueue, c)
  /\ raced' = IF c.op \in UpdateOps /\ \E j \in 1..Len(dbQueue) :
                    dbQueue[j].op \in UpdateOps /\ dbQueue[j].id = c.id /\ dbQueue[j].op # c.op
              THEN raced \cup {c.id} ELSE raced

\* openDB() resolves: the function creates its transaction and issues its first request.
DbOpened(i) ==
  /\ i \in 1..Len(dbQueue)
  /\ OpenMayComplete(i)
  /\ dbQueue' = [dbQueue EXCEPT ![i].phase = "tx", ![i].at = now]
  /\ UNCHANGED <<db, now, loadResult, seqStore, raced>>

\* openDB() rejects: the call rejects, nothing is read or written.
DbOpenFailed(i) ==
  /\ i \in 1..Len(dbQueue)
  /\ OpenMayComplete(i)
  /\ dbQueue' = RemoveAt(dbQueue, i)
  /\ loadResult' = IF dbQueue[i].op = "loadAllOverlays"
                   THEN [ready |-> TRUE, ok |-> FALSE, records |-> <<>>] ELSE loadResult
  /\ UNCHANGED <<db, now, seqStore, raced>>

\* getReq.onsuccess of a field update: the record under id is read.
DbGet(i) ==
  /\ i \in 1..Len(dbQueue)
  /\ dbQueue[i].phase = "tx"
  /\ dbQueue[i].op \in UpdateOps
  /\ TxMayRun(i)
  /\ dbQueue' = [dbQueue EXCEPT ![i].phase = "got", ![i].found = db[dbQueue[i].id]]
  /\ UNCHANGED <<db, now, loadResult, seqStore, raced>>

\* The transaction completes (tx.oncomplete, or req.onsuccess of getAll): its
\* write is in the store and the call resolves.
DbComplete(i) ==
  /\ i \in 1..Len(dbQueue)
  /\ \/ dbQueue[i].phase = "got"
     \/ dbQueue[i].phase = "tx" /\ dbQueue[i].op \notin UpdateOps /\ TxMayRun(i)
  /\ db' = WriteOf(dbQueue[i], db, dbQueue[i].found, now)
  /\ seqStore' = WriteOf(dbQueue[i], seqStore, seqStore[dbQueue[i].id], now)
  /\ loadResult' = IF dbQueue[i].op = "loadAllOverlays"
                   THEN [ready |-> TRUE, ok |-> TRUE, records |-> RecordsOf(db, OverlayIds, now)]
                   ELSE loadResult
  /\ dbQueue' = RemoveAt(dbQueue, i)
  /\ UNCHANGED <<now, raced>>

\* The transaction errors (tx.onerror): nothing is written and the call rejects.
DbTxFailed(i) ==
  /\ i \in 1..Len(dbQueue)
  /\ dbQueue[i].phase \in {"tx", "got"}
  /\ dbQueue[i].phase = "tx" => TxMayRun(i)
  /\ dbQueue' = RemoveAt(dbQueue, i)
  /\ loadResult' = IF dbQueue[i].op = "loadAllOverlays"
                   THEN [ready |-> TRUE, ok |-> FALSE, records |-> <<>>] ELSE loadResult
  /\ UNCHANGED <<db, now, seqStore, raced>>

\* The transaction of a write aborts when it commits (the quota is exceeded):
\* its requests had succeeded, so no error event is fired, only abort, which
\* has no handler: nothing is written and the call's promise stays as it is.
DbTxAborted(i) ==
  /\ i \in 1..Len(dbQueue)
  /\ dbQueue[i].op # "loadAllOverlays"
  /\ \/ dbQueue[i].phase = "got"
     \/ dbQueue[i].phase = "tx" /\ dbQueue[i].op \notin UpdateOps /\ TxMayRun(i)
  /\ dbQueue' = [dbQueue EXCEPT ![i].phase = "aborted"]
  /\ UNCHANGED <<db, now, loadResult, seqStore, raced>>

\* A caller of the store module calls one of its functions.
StoreCalls ==
  {saveOverlayCall(id, id, "d1", DEFAULT_OPACITY, "true", "default") : id \in CallerIds}
  \cup {deleteOverlayCall(id) : id \in CallerIds}
  \cup {updateOverlayOpacityCall(id, o) : id \in CallerIds, o \in Opacities}
  \cup {updateOverlayVisibilityCall(id, v) : id \in CallerIds, v \in Visibles}
  \cup {updateOverlayGroupCall(id, g) : id \in CallerIds, g \in GroupIds}
  \cup {updateOverlayFilenameCall(id, f) : id \in CallerIds, f \in {"renamed"}}

CallerCalls(c) ==
  /\ CallStore(c)
  /\ UNCHANGED <<db, now, loadResult, seqStore>>

\* =========================================================================
\* Part 3b: overlay groups: the group list and the group store
\* =========================================================================
DEFAULT_GROUP_ORDER == 9999

OverlayGroup(id, name, expanded, order) ==
  [id |-> id, name |-> name, expanded |-> expanded, order |-> order]

\* const DEFAULT_GROUP = { id: 'default', name: '未分類', expanded: true, order: 9999 }
DEFAULT_GROUP == OverlayGroup("default", "unclassified", TRUE, DEFAULT_GROUP_ORDER)

\* `group-${Date.now()}`: one id per clock value.
GroupIdAt(t) == <<"group-0", "group-1", "group-2", "group-3">>[t + 1]

\* The keys of the group store, in key order.
GroupKeyOrder == <<"default", "g1">> \o [t \in 1..(MaxClock + 1) |-> GroupIdAt(t - 1)]
GroupKeys == Range(GroupKeyOrder)

NoGroup == [present |-> FALSE, name |-> "", expanded |-> FALSE, order |-> 0]

VARIABLES
  overlayGroups,  \* useState<OverlayGroup[]>([DEFAULT_GROUP])
  groupDb,        \* the 'overlay-groups' object store: id -> stored group (NoGroup when absent)
  groupQueue,     \* saveGroup / deleteGroup calls in flight, in call order
  displayed       \* the group headers as last rendered, top to bottom

groupVars == <<overlayGroups, groupDb, groupQueue>>

InitGroupsWith(g) ==
  /\ overlayGroups = <<DEFAULT_GROUP>>
  /\ groupDb = g
  /\ groupQueue = <<>>
  /\ displayed = <<>>

EmptyGroupDb == [k \in GroupKeys |-> NoGroup]

\* (a, b) => a.order - b.order
ByOrder(a, b) == a.order - b.order

\* A comparator that knows no default group.
OrderOnly(a, b) == a.order - b.order

\* (a, b) => a.id === 'default' ? 1 : b.id === 'default' ? -1 : a.order - b.order
DefaultLast(a, b) ==
  IF a.id = "default" THEN 1 ELSE IF b.id = "default" THEN -1 ELSE a.order - b.order

\* The comparator passed to array.sort.
Compare(cmp, a, b) == IF cmp = "defaultLast" THEN DefaultLast(a, b) ELSE ByOrder(a, b)

\* array.sort(cmp): a stable sort; x goes behind every element it does not sort before.
RECURSIVE InsertSorted(_, _, _)
InsertSorted(sorted, x, cmp) ==
  IF sorted = <<>> THEN <<x>>
  ELSE IF Compare(cmp, sorted[Len(sorted)], x) > 0
       THEN Append(InsertSorted(SubSeq(sorted, 1, Len(sorted) - 1), x, cmp), sorted[Len(sorted)])
       ELSE Append(sorted, x)

RECURSIVE StableSort(_, _)
StableSort(seq, cmp) ==
  IF seq = <<>> THEN <<>>
  ELSE InsertSorted(StableSort(SubSeq(seq, 1, Len(seq) - 1), cmp), seq[Len(seq)], cmp)

\* getAll(): the stored groups in key order.
RECURSIVE StoredGroupsFrom(_, _)
StoredGroupsFrom(g, keys) ==
  IF keys = <<>> THEN <<>>
  ELSE LET k == Head(keys)
           rest == StoredGroupsFrom(g, Tail(keys))
       IN IF g[k].present
            THEN <<OverlayGroup(k, g[k].name, g[k].expanded, g[k].order)>> \o rest
            ELSE rest

\* loadAllGroups(): getAll() sorted by order.
loadAllGroups(g) == StableSort(StoredGroupsFrom(g, GroupKeyOrder), "byOrder")

\* The restore effect's group part: an empty result leaves the list alone,
\* otherwise the stored groups, with DEFAULT_GROUP pushed when none is 'default'.
RestoredGroups(list, g) ==
  LET storedGroups == loadAllGroups(g)
      hasDefault == \E i \in 1..Len(storedGroups) : storedGroups[i].id = "default"
  IN IF Len(storedGroups) > 0
       THEN (IF hasDefault THEN storedGroups ELSE Append(storedGroups, DEFAULT_GROUP))
       ELSE list

\* const sortedGroups = [...overlayGroups].sort(...)
sortedGroups(list) == StableSort(list, "defaultLast")

\* =========================================================================
\* Part 4: the map screen on web: restore effect and overlay handlers
\* =========================================================================
\* toggleOverlayVisibility(id, visible) of the in-process handle: sets the layout
\* visibility of the overlay's layer, no-op when the layer is absent.
webToggleOverlayVisibility(m, id, visible) ==
  IF getLayer(m, LayerId(id))
  THEN setLayoutVisibility(m, LayerId(id), IF visible = "true" THEN "visible" ELSE "none")
  ELSE m

\* The file names the user picks and the overlays found in storage.
ScreenIds == {"a"}

VARIABLES
  mapLoaded,      \* useState(false), set by handleMapLoaded
  overlays,       \* useState<OverlayInfo[]>([]): the UI overlay list
  restorePc,      \* the restore effect: "idle" | "groups" | "overlays" | "adding" | "done"
  restoreEntries, \* the stored entries the restore loop has not finished (head: current)
  imports,        \* runs of the file input's change listener in flight
  removedIds,     \* ids removed by the user and not picked for import since
  rejected,       \* a store call issued by the screen was rejected
  userActions     \* number of user interactions so far

screenVars == <<mapLoaded, overlays, restorePc, restoreEntries, imports, removedIds, rejected,
                userActions>>

\* A user interaction with the overlay panel.
UserActs == userActions < MaxUserActions /\ userActions' = userActions + 1

InitScreen ==
  /\ mapLoaded = FALSE
  /\ overlays = <<>>
  /\ restorePc = "idle"
  /\ restoreEntries = <<>>
  /\ imports = <<>>
  /\ removedIds = {}
  /\ rejected = FALSE
  /\ userActions = 0

OverlayInfo(id, name, opacity, visible, groupId) ==
  [id |-> id, name |-> name, opacity |-> opacity, visible |-> visible, groupId |-> groupId]

\* The list update without the filter on the id: setOverlays((prev) => [...prev, info]).
AppendOverlay(list, info) == Append(list, info)

\* setOverlays((prev) => [...prev.filter((o) => o.id !== id), info])
ReplaceOverlay(list, info) == Append(SelectSeq(list, LAMBDA o : o.id # info.id), info)

InList(id) == \E i \in 1..Len(overlays) : overlays[i].id = id

\* handleMapLoaded: setMapLoaded(true); the restore effect runs and calls loadAllGroups().
handleMapLoaded ==
  /\ ~mapLoaded
  /\ mapLoaded' = TRUE
  /\ restorePc' = "groups"
  /\ UNCHANGED <<overlays, restoreEntries, imports, removedIds, rejected, userActions, web, storeVars>>

\* loadAllGroups() settles: on rejection the catch block ends the effect,
\* otherwise the effect goes on to call loadAllOverlays().
RestoreGroupsLoaded(ok) ==
  /\ restorePc = "groups"
  /\ IF ok
       THEN /\ overlayGroups' = RestoredGroups(overlayGroups, groupDb)
            /\ CallStore(loadAllOverlaysCall)
            /\ restorePc' = "overlays"
       ELSE /\ restorePc' = "done"
            /\ UNCHANGED <<overlayGroups, dbQueue, raced>>
  /\ UNCHANGED <<mapLoaded, overlays, restoreEntries, imports, removedIds, rejected, userActions, web,
                 db, now, loadResult, seqStore>>

\* loadAllOverlays() settles: the loop starts with the first entry, calling
\* addRasterOverlay(entry.id, blobUrl), which awaits the header.
RestoreOverlaysLoaded ==
  /\ restorePc = "overlays"
  /\ loadResult.ready
  /\ loadResult' = NoLoad
  /\ restoreEntries' = IF loadResult.ok THEN loadResult.records ELSE <<>>
  /\ restorePc' = IF loadResult.ok /\ loadResult.records # <<>> THEN "adding" ELSE "done"
  /\ UNCHANGED <<mapLoaded, overlays, imports, removedIds, rejected, userActions, web, db, dbQueue, now,
                 seqStore, raced>>

\* addRasterOverlay of the current entry settles: register it with its stored
\* opacity and visibility, add it to the list, go on with the next entry.
RestoreAdded(outcome) ==
  /\ restorePc = "adding"
  /\ LET entry == Head(restoreEntries)
         m1 == webAddRasterOverlayBody(web, entry.id, outcome)
         m2 == webSetOverlayOpacity(m1, entry.id, entry.rec.opacity)
         m3 == IF entry.rec.visible = "false"
               THEN webToggleOverlayVisibility(m2, entry.id, "false") ELSE m2
         info == OverlayInfo(entry.id, entry.rec.filename, entry.rec.opacity,
                             entry.rec.visible, entry.rec.groupId)
     IN IF webAddRasterOverlayResult(entry.id, outcome) # ""
          THEN web' = m3 /\ overlays' = ReplaceOverlay(overlays, info)
          ELSE web' = m1 /\ UNCHANGED overlays
  /\ restoreEntries' = Tail(restoreEntries)
  /\ restorePc' = IF Tail(restoreEntries) = <<>> THEN "done" ELSE "adding"
  /\ UNCHANGED <<mapLoaded, imports, removedIds, rejected, userActions, storeVars>>

\* The user picks file <id>.pmtiles with content data: the change listener
\* starts and awaits file.arrayBuffer().
ImportPicked(id, data) ==
  /\ mapLoaded
  /\ UserActs
  /\ Len(imports) < MaxImports
  /\ imports' = Append(imports, [id |-> id, data |-> data, phase |-> "reading"])
  /\ removedIds' = removedIds \ {id}
  /\ UNCHANGED <<mapLoaded, overlays, restorePc, restoreEntries, rejected, web, storeVars>>

\* arrayBuffer() resolves: addRasterOverlay(id, blobUrl) is called and awaits the header.
ImportRead(i) ==
  /\ i \in 1..Len(imports)
  /\ imports[i].phase = "reading"
  /\ imports' = [imports EXCEPT ![i].phase = "adding"]
  /\ UNCHANGED <<mapLoaded, overlays, restorePc, restoreEntries, removedIds, rejected, userActions, web, storeVars>>

\* addRasterOverlay settles: on a descriptor, list the overlay with the defaults
\* and call saveOverlay (not awaited).
ImportAdded(i, outcome) ==
  /\ i \in 1..Len(imports)
  /\ imports[i].phase = "adding"
  /\ LET id == imports[i].id
     IN /\ web' = webAddRasterOverlayBody(web, id, outcome)
        /\ IF webAddRasterOverlayResult(id, outcome) # ""
             THEN /\ overlays' = ReplaceOverlay(overlays, OverlayInfo(id, id, DEFAULT_OPACITY, "true", "default"))
                  /\ CallStore(saveOverlayCall(id, id, imports[i].data, DEFAULT_OPACITY, "true", "default"))
             ELSE UNCHANGED <<overlays, dbQueue, raced>>
  /\ imports' = RemoveAt(imports, i)
  /\ UNCHANGED <<mapLoaded, restorePc, restoreEntries, removedIds, rejected, userActions, db, now, loadResult, seqStore>>

handleRemoveOverlay(id) ==
  /\ UserActs
  /\ InList(id)
  /\ web' = webRemoveRasterOverlay(web, id)
  /\ overlays' = SelectSeq(overlays, LAMBDA o : o.id # id)
  /\ CallStore(deleteOverlayCall(id))
  /\ removedIds' = removedIds \cup {id}
  /\ UNCHANGED <<mapLoaded, restorePc, restoreEntries, imports, rejected, db, now, loadResult, seqStore>>

handleOverlayOpacityChange(id, opacity) ==
  /\ UserActs
  /\ InList(id)
  /\ web' = webSetOverlayOpacity(web, id, opacity)
  /\ overlays' = [i \in 1..Len(overlays) |->
                    IF overlays[i].id = id THEN [overlays[i] EXCEPT !.opacity = opacity] ELSE overlays[i]]
  /\ CallStore(updateOverlayOpacityCall(id, opacity))
  /\ UNCHANGED <<mapLoaded, restorePc, restoreEntries, imports, removedIds, rejected, db, now,
                 loadResult, seqStore>>

\* const newVisible = !o.visible
NotVisible(v) == IF v = "true" THEN "false" ELSE "true"

handleToggleOverlayVisibility(id) ==
  /\ UserActs
  /\ InList(id)
  /\ LET o == overlays[CHOOSE i \in 1..Len(overlays) : overlays[i].id = id]
         newVisible == NotVisible(o.visible)
     IN /\ web' = webToggleOverlayVisibility(web, id, newVisible)
        /\ overlays' = [i \in 1..Len(overlays) |->
                          IF overlays[i].id = id THEN [overlays[i] EXCEPT !.visible = newVisible]
                          ELSE overlays[i]]
        /\ CallStore(updateOverlayVisibilityCall(id, newVisible))
  /\ UNCHANGED <<mapLoaded, restorePc, restoreEntries, imports, removedIds, rejected, db, now,
                 loadResult, seqStore>>

handleMoveOverlayToGroup(overlayId, groupId) ==
  /\ UserActs
  /\ InList(overlayId)
  /\ overlays' = [i \in 1..Len(overlays) |->
                    IF overlays[i].id = overlayId THEN [overlays[i] EXCEPT !.groupId = groupId]
                    ELSE overlays[i]]
  /\ CallStore(updateOverlayGroupCall(overlayId, groupId))
  /\ UNCHANGED <<mapLoaded, restorePc, restoreEntries, imports, removedIds, rejected, web, db, now,
                 loadResult, seqStore>>

\* A step of the store while the screen runs; a rejection goes to console.error.
ScreenDb(i) ==
  /\ \/ DbOpened(i) /\ UNCHANGED rejected
     \/ DbGet(i) /\ UNCHANGED rejected
     \/ DbComplete(i) /\ UNCHANGED rejected
     \/ DbOpenFailed(i) /\ rejected' = TRUE
     \/ DbTxFailed(i) /\ rejected' = TRUE
  /\ UNCHANGED <<mapLoaded, overlays, restorePc, restoreEntries, imports, removedIds, userActions, web>>

\* Nothing in flight: no store call, no import, the restore effect has ended.
Quiescent == dbQueue = <<>> /\ imports = <<>> /\ restorePc = "done"

\* A record stored by an earlier session: opacity 0.5, hidden, in group g1.
StoredRecord(id) == [present |-> TRUE, filename |-> id, data |-> "d1", opacity |-> 50,
                     visible |-> "false", groupId |-> "g1", timestamp |-> 0]
StoredDb == [id \in OverlayIds |-> IF id \in ScreenIds THEN StoredRecord(id) ELSE NoRecord]

\* =========================================================================
\* Part 4c: the screen's group handlers and the group store's transactions
\* =========================================================================
saveGroupCall(group) == [op |-> "saveGroup", group |-> group]
deleteGroupCall(id) == [op |-> "deleteGroup", group |-> OverlayGroup(id, "", FALSE, 0)]

\* saveGroup / deleteGroup are called, each for one element of calls.
CallGroupStore(calls) ==
  /\ Len(groupQueue) + Len(calls) <= MaxQueue
  /\ groupQueue' = groupQueue \o calls

\* The transaction of the oldest call completes: put(group) / delete(id).
GroupDbComplete ==
  /\ groupQueue # <<>>
  /\ LET c == Head(groupQueue)
     IN groupDb' = [groupDb EXCEPT ![c.group.id] =
                      IF c.op = "saveGroup"
                        THEN [present |-> TRUE, name |-> c.group.name,
                              expanded |-> c.group.expanded, order |-> c.group.order]
                        ELSE NoGroup]
  /\ groupQueue' = Tail(groupQueue)
  /\ UNCHANGED <<overlayGroups, rejected, mapLoaded, overlays, restorePc, restoreEntries, imports,
                 removedIds, userActions, web, storeVars>>

\* openDB() or the transaction of the oldest call fails: .catch(console.error).
GroupDbFailed ==
  /\ groupQueue # <<>>
  /\ groupQueue' = Tail(groupQueue)
  /\ rejected' = TRUE
  /\ UNCHANGED <<overlayGroups, groupDb, mapLoaded, overlays, restorePc, restoreEntries, imports,
                 removedIds, userActions, web, storeVars>>

\* The saveGroup calls made for the elements of list with the id, as updated by F.
SaveCallsFor(list, id, F(_)) ==
  LET hit == SelectSeq(list, LAMBDA g : g.id = id)
  IN [i \in 1..Len(hit) |-> saveGroupCall(F(hit[i]))]

MapGroups(list, id, F(_)) ==
  [i \in 1..Len(list) |-> IF list[i].id = id THEN F(list[i]) ELSE list[i]]

handleToggleGroupExpanded(groupId) ==
  /\ UserActs
  /\ LET Toggle(g) == [g EXCEPT !.expanded = ~g.expanded]
     IN /\ overlayGroups' = MapGroups(overlayGroups, groupId, Toggle)
        /\ CallGroupStore(SaveCallsFor(overlayGroups, groupId, Toggle))
  /\ UNCHANGED <<groupDb, mapLoaded, overlays, restorePc, restoreEntries, imports, removedIds,
                 rejected, web, storeVars>>

\* name.trim()
Trim(name) == IF name = "  " THEN "" ELSE name

\* Math.max(0, ...overlayGroups.filter((g) => g.id !== 'default').map((g) => g.order))
RECURSIVE MaxOrder(_)
MaxOrder(list) ==
  IF list = <<>> THEN 0
  ELSE LET m == MaxOrder(Tail(list))
           o == IF Head(list).id # "default" THEN Head(list).order ELSE 0
       IN IF o > m THEN o ELSE m

handleCreateGroup(newGroupName) ==
  /\ UserActs
  /\ now < MaxClock
  /\ now' = now + 1
  /\ LET name == Trim(newGroupName)
         newGroup == OverlayGroup(GroupIdAt(now), name, TRUE, MaxOrder(overlayGroups) + 1)
         withoutDefault == SelectSeq(overlayGroups, LAMBDA g : g.id # "default")
         defaults == SelectSeq(overlayGroups, LAMBDA g : g.id = "default")
         defaultGroup == IF defaults = <<>> THEN DEFAULT_GROUP ELSE Head(defaults)
     IN IF name = ""
          THEN UNCHANGED <<overlayGroups, groupQueue>>
          ELSE /\ overlayGroups' = withoutDefault \o <<newGroup, defaultGroup>>
               /\ CallGroupStore(<<saveGroupCall(newGroup)>>)
  /\ UNCHANGED <<groupDb, mapLoaded, overlays, restorePc, restoreEntries, imports, removedIds,
                 rejected, web, db, dbQueue, loadResult, seqStore, raced>>

handleRenameGroup(renameGroupId, renameGroupName) ==
  /\ UserActs
  /\ LET name == Trim(renameGroupName)
         Rename(g) == [g EXCEPT !.name = name]
     IN IF name = ""
          THEN UNCHANGED <<overlayGroups, groupQueue>>
          ELSE /\ overlayGroups' = MapGroups(overlayGroups, renameGroupId, Rename)
               /\ CallGroupStore(SaveCallsFor(overlayGroups, renameGroupId, Rename))
  /\ UNCHANGED <<groupDb, mapLoaded, overlays, restorePc, restoreEntries, imports, removedIds,
                 rejected, web, storeVars>>

\* The guard that lets every group be deleted.
NeverProtected(groupId) == FALSE

\* if (groupId === 'default') return
IsProtectedGroup(groupId) == groupId = "default"

\* updateOverlayGroup(o.id, 'default') for every listed overlay of the group.
ReparentCalls(list, groupId) ==
  LET hit == SelectSeq(list, LAMBDA o : o.groupId = groupId)
  IN [i \in 1..Len(hit) |-> updateOverlayGroupCall(hit[i].id, "default")]

handleDeleteGroup(groupId) ==
  /\ UserActs
  /\ IF IsProtectedGroup(groupId)
       THEN UNCHANGED <<overlays, overlayGroups, groupQueue, dbQueue, raced>>
       ELSE /\ overlays' = [i \in 1..Len(overlays) |->
                              IF overlays[i].groupId = groupId
                                THEN [overlays[i] EXCEPT !.groupId = "default"] ELSE overlays[i]]
            /\ Len(dbQueue) + Len(ReparentCalls(overlays, groupId)) <= MaxQueue
            /\ dbQueue' = dbQueue \o ReparentCalls(overlays, groupId)
            /\ UNCHANGED raced
            /\ overlayGroups' = SelectSeq(overlayGroups, LAMBDA g : g.id # groupId)
            /\ CallGroupStore(<<deleteGroupCall(groupId)>>)
  /\ UNCHANGED <<groupDb, mapLoaded, restorePc, restoreEntries, imports, removedIds, rejected, web,
                 db, now, loadResult, seqStore>>

\* =========================================================================
\* Part 4d: the remote file service module: credential, folder, operations
\* =========================================================================
DriveOps == {"listPMTilesFiles", "uploadPMTiles", "downloadPMTiles"}
Statuses == {"ok", "401"}
DriveProcs == 1..MaxOps

VARIABLES
  accessToken,    \* let accessToken: "null" or the token
  currentUser,    \* let currentUser: "null" or the user
  appFolderId,    \* let appFolderId: "null" or a folder id
  remoteFolders,  \* the application folders that exist remotely, oldest first
  driveFetches,   \* the number of requests driveRequest has issued
  folderCreates,  \* the number of folder-creation requests issued
  procs,          \* the calls of the module's operations and where each of them stands
  signInPc,       \* the signIn() call: idle, requested, userinfo, resolved, rejected
  expired         \* a request was answered 401 and no signIn has resolved since

driveVars == <<accessToken, currentUser, appFolderId, remoteFolders, driveFetches, folderCreates,
               procs, signInPc, expired>>

IdleProc == [op |-> "", pc |-> "idle", folderId |-> "null", error |-> ""]

InitDrive ==
  /\ accessToken = "null"
  /\ currentUser = "null"
  /\ appFolderId = "null"
  /\ remoteFolders = <<>>
  /\ driveFetches = 0
  /\ folderCreates = 0
  /\ procs = [p \in DriveProcs |-> IdleProc]
  /\ signInPc = "idle"
  /\ expired = FALSE

\* The id the remote service gives the n-th folder it creates.
FolderIdAt(n) == <<"folder-1", "folder-2", "folder-3", "folder-4">>[n]

\* getUser() / isSignedIn()
getUser == currentUser
isSignedIn == accessToken # "null"

\* signIn(): tokenClient.requestAccessToken
signIn ==
  /\ signInPc \in {"idle", "resolved", "rejected"}
  /\ signInPc' = "requested"
  /\ UNCHANGED <<accessToken, currentUser, appFolderId, remoteFolders, driveFetches, folderCreates,
                 procs, expired>>

\* The token client's callback: an error rejects signIn, otherwise the token
\* is stored and the user profile is fetched.
TokenResponse(ok) ==
  /\ signInPc = "requested"
  /\ IF ok THEN accessToken' = "token" /\ signInPc' = "userinfo"
           ELSE signInPc' = "rejected" /\ UNCHANGED accessToken
  /\ UNCHANGED <<currentUser, appFolderId, remoteFolders, driveFetches, folderCreates, procs, expired>>

\* The profile fetch returns (signIn resolves with the user) or throws (signIn
\* rejects with 'Failed to fetch user info').
UserInfoResponse(ok) ==
  /\ signInPc = "userinfo"
  /\ IF ok THEN currentUser' = "user" /\ signInPc' = "resolved" /\ expired' = FALSE
           ELSE signInPc' = "rejected" /\ UNCHANGED <<currentUser, expired>>
  /\ UNCHANGED <<accessToken, appFolderId, remoteFolders, driveFetches, folderCreates, procs>>

\* signOut()
signOut ==
  /\ accessToken' = "null"
  /\ currentUser' = "null"
  /\ appFolderId' = "null"
  /\ UNCHANGED <<remoteFolders, driveFetches, folderCreates, procs, signInPc, expired>>

\* driveRequest up to its await: without a token it throws 'Not authenticated',
\* otherwise the request is issued and the call waits at pc.
driveRequest(p, pc, folderId) ==
  IF accessToken = "null"
    THEN /\ procs' = [procs EXCEPT ![p].pc = "failed", ![p].error = "Not authenticated"]
         /\ UNCHANGED driveFetches
    ELSE /\ procs' = [procs EXCEPT ![p].pc = pc, ![p].folderId = folderId]
         /\ driveFetches' = driveFetches + 1

\* if (res.status === 401) { accessToken = null; currentUser = null; throw }
TokenExpired(p) ==
  /\ accessToken' = "null"
  /\ currentUser' = "null"
  /\ expired' = TRUE
  /\ procs' = [procs EXCEPT ![p].pc = "failed", ![p].error = "Token expired"]

\* An operation is called: it runs to its first await. downloadPMTiles requests
\* at once, the others call getOrCreateAppFolder, which returns the cached id
\* or searches for the folder.
DriveCall(p, op) ==
  /\ procs[p].pc = "idle"
  /\ LET started == [procs EXCEPT ![p].op = op]
     IN IF op = "downloadPMTiles" \/ appFolderId # "null"
          THEN IF accessToken = "null"
                 THEN /\ procs' = [started EXCEPT ![p].pc = "failed", ![p].error = "Not authenticated"]
                      /\ UNCHANGED driveFetches
                 ELSE /\ procs' = [started EXCEPT ![p].pc = "requesting", ![p].folderId = appFolderId]
                      /\ driveFetches' = driveFetches + 1
          ELSE IF accessToken = "null"
                 THEN /\ procs' = [started EXCEPT ![p].pc = "failed", ![p].error = "Not authenticated"]
                      /\ UNCHANGED driveFetches
                 ELSE /\ procs' = [started EXCEPT ![p].pc = "searching"]
                      /\ driveFetches' = driveFetches + 1
  /\ UNCHANGED <<accessToken, currentUser, appFolderId, remoteFolders, folderCreates, signInPc,
                 expired>>

\* The folder search is answered: an existing folder is cached and used,
\* otherwise the folder is created.
SearchResponse(p, status) ==
  /\ procs[p].pc = "searching"
  /\ IF status = "401"
       THEN TokenExpired(p) /\ UNCHANGED <<appFolderId, driveFetches, folderCreates>>
       ELSE IF remoteFolders # <<>>
              THEN /\ appFolderId' = remoteFolders[1]
                   /\ driveRequest(p, "requesting", remoteFolders[1])
                   /\ UNCHANGED <<accessToken, currentUser, folderCreates, expired>>
              ELSE /\ driveRequest(p, "creating", "null")
                   /\ folderCreates' = IF accessToken = "null" THEN folderCreates
                                       ELSE folderCreates + 1
                   /\ UNCHANGED <<accessToken, currentUser, appFolderId, expired>>
  /\ UNCHANGED <<remoteFolders, signInPc>>

\* The folder creation is answered: appFolderId = folder.id, then the
\* operation's own request.
CreateResponse(p, status) ==
  /\ procs[p].pc = "creating"
  /\ IF status = "401"
       THEN TokenExpired(p) /\ UNCHANGED <<appFolderId, remoteFolders, driveFetches>>
       ELSE /\ remoteFolders' = Append(remoteFolders, FolderIdAt(Len(remoteFolders) + 1))
            /\ appFolderId' = FolderIdAt(Len(remoteFolders) + 1)
            /\ driveRequest(p, "requesting", FolderIdAt(Len(remoteFolders) + 1))
            /\ UNCHANGED <<accessToken, currentUser, expired>>
  /\ UNCHANGED <<folderCreates, signInPc>>

\* The operation's own request is answered.
OpResponse(p, status) ==
  /\ procs[p].pc = "requesting"
  /\ IF status = "401"
       THEN TokenExpired(p)
       ELSE procs' = [procs EXCEPT ![p].pc = "done"] /\ UNCHANGED <<accessToken, currentUser, expired>>
  /\ UNCHANGED <<appFolderId, remoteFolders, driveFetches, folderCreates, signInPc>>

\* =========================================================================
\* Part 4e: one sync pass over the remote file service
\* =========================================================================
LocalNames == {"X", "Y", "Z"}

\* The remote filename derived from a display name, and the local name derived
\* from a remote filename.
RemoteNameOf(name) == [n \in LocalNames |-> IF n = "X" THEN "X.pmtiles"
                                            ELSE IF n = "Y" THEN "Y.pmtiles" ELSE "Z.pmtiles"][name]
RemoteNames == {RemoteNameOf(n) : n \in LocalNames}
LocalNameOf(file) == CHOOSE n \in LocalNames : RemoteNameOf(n) = file

VARIABLES
  syncPc,         \* where the pass stands
  localFiles,     \* display names of the overlays in the Overlay Store
  remoteFiles,    \* filenames of the objects in the application folder
  remoteListing,  \* the listing the pass last obtained
  pendingCall,    \* the remote call the pass awaits
  uploaded,       \* display names uploaded by this pass
  downloaded,     \* remote filenames downloaded by this pass
  metaWritten,    \* the metadata document was written by this pass
  transferFailed, \* an upload or download of this pass failed
  listFailed,     \* a listing of this pass was answered with an error status
  passes          \* the number of passes started

syncVars == <<syncPc, localFiles, remoteFiles, remoteListing, pendingCall, uploaded, downloaded,
              metaWritten, transferFailed, listFailed, passes>>

NoCall == [fn |-> "", name |-> ""]

InitSyncWith(local, remote) ==
  /\ syncPc = "idle"
  /\ localFiles = local
  /\ remoteFiles = remote
  /\ remoteListing = {}
  /\ pendingCall = NoCall
  /\ uploaded = {}
  /\ downloaded = {}
  /\ metaWritten = FALSE
  /\ transferFailed = FALSE
  /\ listFailed = FALSE
  /\ passes = 0

ListOutcomes == {"ok", "error", "throws"}

\* The pass with its download pass ahead of its upload pass.
DownloadsFirst == <<"downloading", "uploading", "publishing">>

\* Upload pass, download pass, metadata publish.
PassOrder == <<"uploading", "downloading", "publishing">>

StepAfter(pc) ==
  IF pc = PassOrder[1] THEN PassOrder[2] ELSE IF pc = PassOrder[2] THEN PassOrder[3] ELSE "done"

\* A pass that goes on to publish after a failed transfer.
PublishAnyway == "publishing"

\* A transfer failure aborts the remainder of the pass.
OnTransferFailure == "failed"

\* Local overlays whose derived remote filename is absent from the listing.
ToUpload == {n \in localFiles : RemoteNameOf(n) \notin remoteListing} \ uploaded

\* Listed remote objects whose derived local name is absent locally.
ToDownload == {f \in remoteListing : LocalNameOf(f) \notin localFiles}

\* A pass is started: step 1, listPMTilesFiles().
SyncStart ==
  /\ syncPc \in {"idle", "done", "failed"}
  /\ passes < MaxPasses
  /\ passes' = passes + 1
  /\ syncPc' = "listing"
  /\ pendingCall' = [fn |-> "listPMTilesFiles", name |-> ""]
  /\ remoteListing' = {}
  /\ uploaded' = {}
  /\ downloaded' = {}
  /\ metaWritten' = FALSE
  /\ transferFailed' = FALSE
  /\ listFailed' = FALSE
  /\ UNCHANGED <<localFiles, remoteFiles>>

\* listPMTilesFiles() returns `data.files || []`: the files, or nothing when
\* the request was answered with an error body; a 401 or a network failure throws.
Listed(outcome) == IF outcome = "ok" THEN remoteFiles ELSE {}

ListResponse(outcome) ==
  /\ syncPc \in {"listing", "relisting"}
  /\ pendingCall' = NoCall
  /\ IF outcome = "throws"
       THEN syncPc' = "failed" /\ UNCHANGED <<remoteListing, listFailed>>
       ELSE /\ remoteListing' = Listed(outcome)
            /\ listFailed' = (listFailed \/ outcome = "error")
            /\ syncPc' = IF syncPc = "listing" THEN PassOrder[1] ELSE "downloading"
  /\ UNCHANGED <<localFiles, remoteFiles, uploaded, downloaded, metaWritten, transferFailed, passes>>

\* Upload pass: uploadPMTiles(filename, data) for a local overlay absent remotely.
UploadIssue(name) ==
  /\ syncPc = "uploading"
  /\ pendingCall = NoCall
  /\ name \in ToUpload
  /\ pendingCall' = [fn |-> "uploadPMTiles", name |-> name]
  /\ UNCHANGED <<syncPc, localFiles, remoteFiles, remoteListing, uploaded, downloaded, metaWritten,
                 transferFailed, listFailed, passes>>

\* uploadPMTiles resolves with the new object's id, or throws (`!res.ok`, 401).
UploadResponse(ok) ==
  /\ pendingCall.fn = "uploadPMTiles"
  /\ pendingCall' = NoCall
  /\ IF ok THEN /\ remoteFiles' = remoteFiles \cup {RemoteNameOf(pendingCall.name)}
                /\ uploaded' = uploaded \cup {pendingCall.name}
                /\ UNCHANGED <<syncPc, transferFailed>>
           ELSE /\ syncPc' = OnTransferFailure
                /\ transferFailed' = TRUE
                /\ UNCHANGED <<remoteFiles, uploaded>>
  /\ UNCHANGED <<localFiles, remoteListing, downloaded, metaWritten, listFailed, passes>>

\* The upload pass is over: the remote objects are listed again if it uploaded.
UploadsDone ==
  /\ syncPc = "uploading"
  /\ pendingCall = NoCall
  /\ ToUpload = {}
  /\ IF uploaded # {} /\ StepAfter("uploading") = "downloading"
       THEN syncPc' = "relisting" /\ pendingCall' = [fn |-> "listPMTilesFiles", name |-> ""]
       ELSE /\ syncPc' = StepAfter("uploading")
            /\ pendingCall' = IF StepAfter("uploading") = "publishing"
                              THEN [fn |-> "uploadMetadata", name |-> ""] ELSE NoCall
  /\ UNCHANGED <<localFiles, remoteFiles, remoteListing, uploaded, downloaded, metaWritten,
                 transferFailed, listFailed, passes>>

\* Download pass: downloadPMTiles(file.id) for a remote object absent locally.
DownloadIssue(file) ==
  /\ syncPc = "downloading"
  /\ pendingCall = NoCall
  /\ file \in ToDownload
  /\ pendingCall' = [fn |-> "downloadPMTiles", name |-> file]
  /\ UNCHANGED <<syncPc, localFiles, remoteFiles, remoteListing, uploaded, downloaded, metaWritten,
                 transferFailed, listFailed, passes>>

\* downloadPMTiles resolves with the bytes, which are persisted, or throws.
DownloadResponse(ok) ==
  /\ pendingCall.fn = "downloadPMTiles"
  /\ pendingCall' = NoCall
  /\ IF ok THEN /\ localFiles' = localFiles \cup {LocalNameOf(pendingCall.name)}
                /\ downloaded' = downloaded \cup {pendingCall.name}
                /\ UNCHANGED <<syncPc, transferFailed>>
           ELSE /\ syncPc' = OnTransferFailure
                /\ transferFailed' = TRUE
                /\ UNCHANGED <<localFiles, downloaded>>
  /\ UNCHANGED <<remoteFiles, remoteListing, uploaded, metaWritten, listFailed, passes>>

\* The download pass is over.
DownloadsDone ==
  /\ syncPc = "downloading"
  /\ pendingCall = NoCall
  /\ ToDownload = {}
  /\ syncPc' = StepAfter("downloading")
  /\ pendingCall' = IF StepAfter("downloading") = "publishing"
                    THEN [fn |-> "uploadMetadata", name |-> ""] ELSE NoCall
  /\ UNCHANGED <<localFiles, remoteFiles, remoteListing, uploaded, downloaded, metaWritten,
                 transferFailed, listFailed, passes>>

\* uploadMetadata(metadata) resolves once the document is written, or throws.
MetadataResponse(ok) ==
  /\ syncPc = "publishing"
  /\ pendingCall' = NoCall
  /\ IF ok THEN metaWritten' = TRUE /\ syncPc' = StepAfter("publishing")
           ELSE syncPc' = "failed" /\ UNCHANGED metaWritten
  /\ UNCHANGED <<localFiles, remoteFiles, remoteListing, uploaded, downloaded, transferFailed,
                 listFailed, passes>>

\* =========================================================================
\* Part 5: life of a map instance: construction, 'load', pulse frames, disposal
\* =========================================================================
PULSE_START == 180
PULSE_STEP == 3
PULSE_MAX == 240
PULSE_MIN == 160

VARIABLES
  life,          \* the in-process map: "created" (mapRef set, no 'load' yet) | "ready" | "disposed"
  pulseAnimRef,  \* pulseAnimRef.current: 0 or the id of the frame requested last
  rafPending,    \* ids of the animation frames requested and neither run nor cancelled
  rafNext,       \* the id the next requestAnimationFrame returns
  pulseR,        \* pulseR, in tenths of a pixel
  pulseDir,      \* pulseDir
  pageLife,      \* the content view's page: "created" | "ready" | "disposed"
  pagePending,   \* the page has an animation frame requested
  pageRuns,      \* number of animatePulse runs in the page
  pulseRadius,   \* pulseRadius of the page, in tenths of a pixel
  pulseDirection \* pulseDirection of the page

lifeVars == <<life, pulseAnimRef, rafPending, rafNext, pulseR, pulseDir,
              pageLife, pagePending, pageRuns, pulseRadius, pulseDirection>>

InitLifeVars ==
  /\ life = "created"
  /\ pulseAnimRef = 0
  /\ rafPending = {}
  /\ rafNext = 1
  /\ pulseR = PULSE_START
  /\ pulseDir = 1
  /\ pageLife = "created"
  /\ pagePending = FALSE
  /\ pageRuns = 0
  /\ pulseRadius = PULSE_START
  /\ pulseDirection = 1

\* pulseR += pulseDir * 0.3; if (pulseR >= 24) pulseDir = -1; if (pulseR <= 16) pulseDir = 1
PulseRadiusAfter(r, dir) == r + dir * PULSE_STEP
PulseDirAfter(r, dir) ==
  LET r1 == PulseRadiusAfter(r, dir)
      d1 == IF r1 >= PULSE_MAX THEN -1 ELSE dir
  IN IF r1 <= PULSE_MIN THEN 1 ELSE d1

\* animatePulse() of the in-process map: step the radius, request the next frame.
animatePulse ==
  /\ pulseR' = PulseRadiusAfter(pulseR, pulseDir)
  /\ pulseDir' = PulseDirAfter(pulseR, pulseDir)
  /\ pulseAnimRef' = rafNext
  /\ rafNext' = rafNext + 1

\* The 'load' event of the in-process map: location source and layers, first
\* animatePulse(), onMapLoaded.
LifeLoad ==
  /\ life = "created"
  /\ life' = "ready"
  /\ web' = OnLoad(web)
  /\ animatePulse
  /\ rafPending' = rafPending \cup {rafNext}
  /\ UNCHANGED <<pageLife, pagePending, pageRuns, pulseRadius, pulseDirection>>

\* A requested frame runs animatePulse. On a removed map map.getLayer throws
\* before the next frame is requested.
LifeFrameWithin(id, frames) ==
  /\ id \in rafPending
  /\ rafNext <= frames
  /\ IF life = "disposed"
       THEN /\ pulseR' = PulseRadiusAfter(pulseR, pulseDir)
            /\ pulseDir' = PulseDirAfter(pulseR, pulseDir)
            /\ rafPending' = rafPending \ {id}
            /\ UNCHANGED <<pulseAnimRef, rafNext>>
       ELSE /\ animatePulse
            /\ rafPending' = (rafPending \ {id}) \cup {rafNext}
  /\ UNCHANGED <<life, web, pageLife, pagePending, pageRuns, pulseRadius, pulseDirection>>

LifeFrame(id) == LifeFrameWithin(id, MaxFrames)

\* The cleanup that leaves the frame alone.
KeepFrame(pending, id) == pending

\* cancelAnimationFrame(id)
cancelAnimationFrame(pending, id) == pending \ {id}

\* The effect's cleanup: cancelAnimationFrame(pulseAnimRef.current); map.remove();
\* mapRef.current = null.
LifeDispose ==
  /\ life # "disposed"
  /\ rafPending' = cancelAnimationFrame(rafPending, pulseAnimRef)
  /\ life' = "disposed"
  /\ UNCHANGED <<web, pulseAnimRef, rafNext, pulseR, pulseDir,
                 pageLife, pagePending, pageRuns, pulseRadius, pulseDirection>>

\* A void command on the in-process handle: if (!map) return.
LifeCommand(m) ==
  /\ web' = IF life = "disposed" THEN web ELSE m
  /\ UNCHANGED lifeVars

LifeUpdateLocation(lng, lat, accuracy) == LifeCommand(webUpdateLocation(web, lng, lat, accuracy))
LifeFlyToLocation(lng, lat, zoomLevel) == LifeCommand(webFlyToLocation(web, lng, lat, zoomLevel))
LifeHideLocation == LifeCommand(webHideLocation(web))
LifeSetTileSource(source) == LifeCommand(webSetTileSource(web, source))
LifeRemoveRasterOverlay(id) == LifeCommand(webRemoveRasterOverlay(web, id))
\* addRasterOverlay settles: with mapRef null it returned null at once.
LifeAddRasterOverlay(id, outcome) == LifeCommand(webAddRasterOverlayBody(web, id, outcome))

\* The page's 'load' handler: location layers, 'mapLoaded' posted, startPulseAnimation().
PageLoad ==
  /\ pageLife = "created"
  /\ pageLife' = "ready"
  /\ pulseRadius' = PulseRadiusAfter(pulseRadius, pulseDirection)
  /\ pulseDirection' = PulseDirAfter(pulseRadius, pulseDirection)
  /\ pagePending' = TRUE
  /\ pageRuns' = 1
  /\ UNCHANGED <<web, life, pulseAnimRef, rafPending, rafNext, pulseR, pulseDir>>

\* A frame of the page: animatePulse steps the radius and requests the next frame.
PageFrameWithin(frames) ==
  /\ pagePending
  /\ pageRuns < frames
  /\ pulseRadius' = PulseRadiusAfter(pulseRadius, pulseDirection)
  /\ pulseDirection' = PulseDirAfter(pulseRadius, pulseDirection)
  /\ pageRuns' = pageRuns + 1
  /\ UNCHANGED <<web, life, pulseAnimRef, rafPending, rafNext, pulseR, pulseDir, pageLife, pagePending>>

PageFrame == PageFrameWithin(MaxFrames)

\* The WebView is unmounted: its page, and with it the page's pending frame, is destroyed.
PageDispose ==
  /\ pageLife # "disposed"
  /\ pageLife' = "disposed"
  /\ pagePending' = FALSE
  /\ UNCHANGED <<web, life, pulseAnimRef, rafPending, rafNext, pulseR, pulseDir,
                 pageRuns, pulseRadius, pulseDirection>>

\* =========================================================================
\* Part 4f: the signIn promises and the token client's callback
\* =========================================================================
MaxSignIns == 3

\* The calls of signIn(), in call order; the token request a call makes is
\* named after the call.
SignIns == 1..MaxSignIns

VARIABLES
  pendingAuthCallback,  \* let pendingAuthCallback: 0 (null) or the call whose resolve/reject it holds
  signInPromise,        \* the promise of each call: unissued, pending, resolved, rejected
  tokenRequest,         \* each requestAccessToken: none, requested, userinfo (callback awaits the fetch), done
  settledBy             \* the token request whose callback settled the call's promise (0: none)

authVars == <<pendingAuthCallback, signInPromise, tokenRequest, settledBy>>

InitAuth ==
  /\ pendingAuthCallback = 0
  /\ signInPromise = [c \in SignIns |-> "unissued"]
  /\ tokenRequest = [c \in SignIns |-> "none"]
  /\ settledBy = [c \in SignIns |-> 0]

\* signIn(): pendingAuthCallback = (user, error) => ...; tokenClient.requestAccessToken()
AuthSignIn(c) ==
  /\ signInPromise[c] = "unissued"
  /\ \A d \in SignIns : d < c => signInPromise[d] # "unissued"
  /\ pendingAuthCallback' = c
  /\ signInPromise' = [signInPromise EXCEPT ![c] = "pending"]
  /\ tokenRequest' = [tokenRequest EXCEPT ![c] = "requested"]
  /\ UNCHANGED <<settledBy, driveVars>>

\* pendingAuthCallback?.(user, error); pendingAuthCallback = null, run by the
\* callback of token request r: the promise whose functions the variable
\* holds is settled.
InvokePending(r, outcome) ==
  /\ IF pendingAuthCallback # 0
       THEN /\ signInPromise' = [signInPromise EXCEPT ![pendingAuthCallback] = outcome]
            /\ settledBy' = [settledBy EXCEPT ![pendingAuthCallback] = r]
       ELSE UNCHANGED <<signInPromise, settledBy>>
  /\ pendingAuthCallback' = 0
  /\ tokenRequest' = [tokenRequest EXCEPT ![r] = "done"]

\* The token client invokes its callback for request r: with an error the
\* pending callback is told and cleared, otherwise the token is stored and the
\* profile fetch awaited.
AuthTokenCallback(r, ok) ==
  /\ tokenRequest[r] = "requested"
  /\ IF ok
       THEN /\ accessToken' = "token"
            /\ tokenRequest' = [tokenRequest EXCEPT ![r] = "userinfo"]
            /\ UNCHANGED <<pendingAuthCallback, signInPromise, settledBy>>
       ELSE /\ InvokePending(r, "rejected")
            /\ UNCHANGED accessToken
  /\ UNCHANGED <<currentUser, appFolderId, remoteFolders, driveFetches, folderCreates, procs,
                 signInPc, expired>>

\* The profile fetch of request r's callback returns or throws.
AuthUserInfo(r, ok) ==
  /\ tokenRequest[r] = "userinfo"
  /\ IF ok THEN currentUser' = "user" /\ InvokePending(r, "resolved")
           ELSE UNCHANGED currentUser /\ InvokePending(r, "rejected")
  /\ UNCHANGED <<accessToken, appFolderId, remoteFolders, driveFetches, folderCreates, procs,
                 signInPc, expired>>

\* =========================================================================
\* Part 6: the position source (useLocation)
\* =========================================================================
MaxStarts == 2

\* The calls of startTracking, in call order; the subscription a call obtains
\* is named after the call.
Starts == 1..MaxStarts

VARIABLES
  hookMounted,      \* the component using the hook is mounted
  subscriptionRef,  \* subscriptionRef.current: 0 (null) or a subscription
  activeSubs,       \* the subscriptions obtained and not removed
  isTracking,       \* useState(false)
  starts,           \* each startTracking call: idle, permission, watching, tracking, denied, failed
  stopped           \* stopTracking or the unmount ran and startTracking was not called since

locVars == <<hookMounted, subscriptionRef, activeSubs, isTracking, starts, stopped>>

InitLocation ==
  /\ hookMounted = TRUE
  /\ subscriptionRef = 0
  /\ activeSubs = {}
  /\ isTracking = FALSE
  /\ starts = [c \in Starts |-> "idle"]
  /\ stopped = FALSE

\* startTracking() is called, by the effect on mount or by the component: it
\* runs up to `await Location.requestForegroundPermissionsAsync()`.
startTracking(c) ==
  /\ hookMounted
  /\ starts[c] = "idle"
  /\ \A d \in Starts : d < c => starts[d] # "idle"
  /\ starts' = [starts EXCEPT ![c] = "permission"]
  /\ stopped' = FALSE
  /\ UNCHANGED <<hookMounted, subscriptionRef, activeSubs, isTracking>>

\* The permission request of call c resolves: not granted, the call returns;
\* granted, stopTracking() and then `await Location.watchPositionAsync(...)`.
PermissionResponse(c, granted) ==
  /\ starts[c] = "permission"
  /\ IF granted
       THEN /\ activeSubs' = activeSubs \ {subscriptionRef}
            /\ subscriptionRef' = 0
            /\ isTracking' = FALSE
            /\ starts' = [starts EXCEPT ![c] = "watching"]
       ELSE /\ starts' = [starts EXCEPT ![c] = "denied"]
            /\ UNCHANGED <<subscriptionRef, activeSubs, isTracking>>
  /\ UNCHANGED <<hookMounted, stopped>>

\* watchPositionAsync of call c resolves with its subscription:
\* subscriptionRef.current = subscription; setIsTracking(true). Or it throws.
\* A state update of an unmounted component has no effect.
WatchResponse(c, ok) ==
  /\ starts[c] = "watching"
  /\ IF ok
       THEN /\ activeSubs' = activeSubs \cup {c}
            /\ subscriptionRef' = c
            /\ isTracking' = (hookMounted \/ isTracking)
            /\ starts' = [starts EXCEPT ![c] = "tracking"]
       ELSE /\ starts' = [starts EXCEPT ![c] = "failed"]
            /\ UNCHANGED <<subscriptionRef, activeSubs, isTracking>>
  /\ UNCHANGED <<hookMounted, stopped>>

\* stopTracking(): remove the subscription in the ref, if any; setIsTracking(false).
stopTracking ==
  /\ hookMounted
  /\ activeSubs' = activeSubs \ {subscriptionRef}
  /\ subscriptionRef' = 0
  /\ isTracking' = FALSE
  /\ stopped' = TRUE
  /\ UNCHANGED <<hookMounted, starts>>

\* The effect's cleanup on unmount: stopTracking().
HookUnmount ==
  /\ hookMounted
  /\ hookMounted' = FALSE
  /\ activeSubs' = activeSubs \ {subscriptionRef}
  /\ subscriptionRef' = 0
  /\ isTracking' = FALSE
  /\ stopped' = TRUE
  /\ UNCHANGED starts

\* =========================================================================
\* Part 7: position fixes from the hook to the map (the screen's location effect)
\* =========================================================================
MaxFixes == 3

\* The fixes the platform delivers are numbered in the order received.
VARIABLES
  location,   \* useState<UserLocation | null>(null): 0 (null) or the fix set last
  committed,  \* the dependencies [location, mapLoaded] of the render committed last
  sent        \* the fixes passed to mapRef.current.updateLocation, in call order

fixVars == <<location, committed, sent>>

InitFix ==
  /\ location = 0
  /\ committed = [location |-> 0, mapLoaded |-> FALSE]
  /\ sent = <<>>

\* The callback of watchPositionAsync, invoked for subscription c with the
\* next fix: setLocation({...}).
FixReceived(c) ==
  /\ c \in activeSubs
  /\ hookMounted
  /\ location < MaxFixes
  /\ location' = location + 1
  /\ UNCHANGED <<committed, sent, locVars>>

\* An effect that does not wait for the map.
AlwaysForward(loc, loaded) == loc # 0

\* if (location && mapLoaded && mapRef.current)
EffectForwards(loc, loaded) == loc # 0 /\ loaded

\* The screen renders with the current state and its location effect, whose
\* dependencies [location, mapLoaded] have changed, runs:
\* mapRef.current.updateLocation(location.longitude, location.latitude, location.accuracy).
LocationEffect ==
  /\ committed # [location |-> location, mapLoaded |-> mapLoaded]
  /\ committed' = [location |-> location, mapLoaded |-> mapLoaded]
  /\ IF EffectForwards(location, mapLoaded)
       THEN /\ sent' = Append(sent, location)
            /\ \E p \in Coordinates, acc \in Accuracies :
                 web' = webUpdateLocation(web, p[1], p[2], acc)
       ELSE UNCHANGED <<sent, web>>
  /\ UNCHANGED <<location, locVars, screenVars, storeVars>>

\* =========================================================================
\* Specifications
\* =========================================================================
vars == <<bridgeVars, eqVars, storeVars, screenVars, lifeVars, groupVars, displayed, saveCalled, driveVars, syncVars, locVars, authVars, fixVars>>

otherThanBridge == <<eqVars, storeVars, screenVars, lifeVars, groupVars, displayed, saveCalled, driveVars, syncVars, locVars, authVars, fixVars>>
otherThanEq == <<bridgeVars, storeVars, screenVars, lifeVars, groupVars, displayed, saveCalled, driveVars, syncVars, locVars, authVars, fixVars>>
otherThanStore == <<bridgeVars, eqVars, screenVars, lifeVars, groupVars, displayed, saveCalled, driveVars, syncVars, locVars, authVars, fixVars>>

Init ==
  /\ InitBridge /\ InitEq /\ InitStoreWith(EmptyDb) /\ InitScreen /\ InitLifeVars /\ InitDrive /\ InitLocation /\ InitAuth /\ InitFix /\ InitSyncWith({}, {})
  /\ InitGroupsWith(EmptyGroupDb)

\* The bridged handle: calls, their timers and inbound messages.
NextBridge ==
  \/ \E c \in Calls : addRasterOverlay(c) /\ UNCHANGED otherThanBridge
  \/ \E c \in Calls : TimerFire(c) /\ UNCHANGED otherThanBridge
  \/ handleMessage /\ UNCHANGED otherThanBridge

SpecBridge == Init /\ [][NextBridge]_vars

\* The same command issued on the in-process and on the bridged handle.
NextEq ==
  \/ \E p \in Coordinates, acc \in Accuracies : EqUpdateLocation(p[1], p[2], acc) /\ UNCHANGED otherThanEq
  \/ \E p \in Coordinates, z \in ZoomArgs : EqFlyToLocation(p[1], p[2], z) /\ UNCHANGED otherThanEq
  \/ EqHideLocation /\ UNCHANGED otherThanEq
  \/ \E source \in TileSources : EqSetTileSource(source) /\ UNCHANGED otherThanEq
  \/ \E id \in OverlayIds, outcome \in AddOutcomes : EqAddRasterOverlay(id, outcome) /\ UNCHANGED otherThanEq
  \/ \E id \in OverlayIds : EqRemoveRasterOverlay(id) /\ UNCHANGED otherThanEq
  \/ \E id \in OverlayIds, o \in Opacities : EqSetOverlayOpacity(id, o) /\ UNCHANGED otherThanEq

SpecEq == Init /\ [][NextEq]_vars

\* Position fixes of any accuracy on both handles, at the zoom levels the
\* camera is flown to.
RadiusCoordinates == {<<135, 35>>, <<135, 60>>, <<0, 0>>}
RadiusAccuracies == {NoAccuracy, 0, 1, 500, 100000}   \* metres
RadiusZooms == {NoZoom, 0, 13, 22}

NextRadius ==
  \/ \E p \in RadiusCoordinates, acc \in RadiusAccuracies :
       EqUpdateLocation(p[1], p[2], acc) /\ UNCHANGED otherThanEq
  \/ \E p \in {DEFAULT_CENTER}, z \in RadiusZooms : EqFlyToLocation(p[1], p[2], z) /\ UNCHANGED otherThanEq
  \/ EqHideLocation /\ UNCHANGED otherThanEq

SpecRadius == Init /\ [][NextRadius]_vars

\* The Overlay Store under arbitrary callers.
NextStore ==
  \/ \E c \in StoreCalls : CallerCalls(c) /\ UNCHANGED otherThanStore
  \/ \E i \in 1..MaxQueue : DbOpened(i) /\ UNCHANGED otherThanStore
  \/ \E i \in 1..MaxQueue : DbOpenFailed(i) /\ UNCHANGED otherThanStore
  \/ \E i \in 1..MaxQueue : DbGet(i) /\ UNCHANGED otherThanStore
  \/ \E i \in 1..MaxQueue : DbComplete(i) /\ UNCHANGED otherThanStore
  \/ \E i \in 1..MaxQueue : DbTxFailed(i) /\ UNCHANGED otherThanStore

InitStore ==
  /\ InitBridge /\ InitEq /\ InitStoreWith(LegacyDb) /\ InitScreen /\ InitLifeVars /\ InitDrive /\ InitLocation /\ InitAuth /\ InitFix /\ InitSyncWith({}, {})
  /\ InitGroupsWith(EmptyGroupDb)

SpecStore == InitStore /\ [][NextStore]_vars

\* One saveOverlay call on an empty store followed by one loadAllOverlays call,
\* while the clock runs.
otherThanRoundTrip == <<bridgeVars, eqVars, screenVars, lifeVars, groupVars, displayed, driveVars, syncVars, locVars, authVars, fixVars>>

Filenames == {"f1", "f2"}

Tick ==
  /\ now < MaxClock
  /\ now' = now + 1
  /\ UNCHANGED <<db, dbQueue, loadResult, seqStore, raced, saveCalled>>

\* saveOverlay(id, filename, data, 0.8, true, 'default')
RoundTripSave(id, filename, data) ==
  /\ ~saveCalled.called
  /\ CallStore(saveOverlayCall(id, filename, data, DEFAULT_OPACITY, "true", "default"))
  /\ saveCalled' = [called |-> TRUE, id |-> id, filename |-> filename, data |-> data, at |-> now]
  /\ UNCHANGED <<db, now, loadResult, seqStore>>

\* loadAllOverlays(), called once saveOverlay has been called.
RoundTripLoad ==
  /\ saveCalled.called
  /\ ~loadResult.ready
  /\ \A j \in 1..Len(dbQueue) : dbQueue[j].op # "loadAllOverlays"
  /\ CallStore(loadAllOverlaysCall)
  /\ UNCHANGED <<db, now, loadResult, seqStore, saveCalled>>

NextRoundTrip ==
  \/ Tick /\ UNCHANGED otherThanRoundTrip
  \/ \E id \in OverlayIds, f \in Filenames, data \in DataVals :
       RoundTripSave(id, f, data) /\ UNCHANGED otherThanRoundTrip
  \/ RoundTripLoad /\ UNCHANGED otherThanRoundTrip
  \/ \E i \in 1..MaxQueue : DbOpened(i) /\ UNCHANGED otherThanStore
  \/ \E i \in 1..MaxQueue : DbOpenFailed(i) /\ UNCHANGED otherThanStore
  \/ \E i \in 1..MaxQueue : DbComplete(i) /\ UNCHANGED otherThanStore
  \/ \E i \in 1..MaxQueue : DbTxFailed(i) /\ UNCHANGED otherThanStore

SpecRoundTrip == Init /\ [][NextRoundTrip]_vars

\* The Overlay Store with every way a call's open request or transaction can end.
FaultCalls ==
  {saveOverlayCall(id, id, "d1", DEFAULT_OPACITY, "true", "default") : id \in CallerIds}
  \cup {updateOverlayOpacityCall(id, o) : id \in CallerIds, o \in Opacities}
  \cup {deleteOverlayCall(id) : id \in CallerIds}
  \cup {loadAllOverlaysCall}

NextFaults ==
  \/ \E c \in FaultCalls : CallerCalls(c) /\ UNCHANGED otherThanStore
  \/ \E i \in 1..MaxQueue : DbOpened(i) /\ UNCHANGED otherThanStore
  \/ \E i \in 1..MaxQueue : DbOpenFailed(i) /\ UNCHANGED otherThanStore
  \/ \E i \in 1..MaxQueue : DbGet(i) /\ UNCHANGED otherThanStore
  \/ \E i \in 1..MaxQueue : DbComplete(i) /\ UNCHANGED otherThanStore
  \/ \E i \in 1..MaxQueue : DbTxFailed(i) /\ UNCHANGED otherThanStore
  \/ \E i \in 1..MaxQueue : DbTxAborted(i) /\ UNCHANGED otherThanStore

SpecFaults == InitStore /\ [][NextFaults]_vars

\* loadAllOverlays on a store written by any schema version, next to a field update.
StoredOpacities == {UndefNum, 0, 50}
StoredVisibles == {UndefStr, "true", "false"}
StoredGroupIds == {UndefStr, "g1"}

\* Record a as some version wrote it; record b absent or as version 1 wrote it.
AnyVersionDbs ==
  {[id \in OverlayIds |->
      IF id \in CallerIds
        THEN [present |-> TRUE, filename |-> id, data |-> "d1", opacity |-> o, visible |-> v,
              groupId |-> g, timestamp |-> 0]
        ELSE IF legacy THEN LegacyRecord(id) ELSE NoRecord] :
     o \in StoredOpacities, v \in StoredVisibles, g \in StoredGroupIds, legacy \in BOOLEAN}

InitLoad ==
  /\ InitBridge /\ InitEq /\ InitScreen /\ InitLifeVars /\ InitDrive /\ InitLocation /\ InitAuth /\ InitFix /\ InitSyncWith({}, {}) /\ InitGroupsWith(EmptyGroupDb)
  /\ \E d \in AnyVersionDbs : InitStoreWith(d)

LoadCalls ==
  {loadAllOverlaysCall} \cup {updateOverlayFilenameCall(id, "renamed") : id \in CallerIds}

NextLoad ==
  \/ \E c \in LoadCalls : CallerCalls(c) /\ UNCHANGED otherThanStore
  \/ \E i \in 1..MaxQueue : DbOpened(i) /\ UNCHANGED otherThanStore
  \/ \E i \in 1..MaxQueue : DbOpenFailed(i) /\ UNCHANGED otherThanStore
  \/ \E i \in 1..MaxQueue : DbGet(i) /\ UNCHANGED otherThanStore
  \/ \E i \in 1..MaxQueue : DbComplete(i) /\ UNCHANGED otherThanStore
  \/ \E i \in 1..MaxQueue : DbTxFailed(i) /\ UNCHANGED otherThanStore

SpecLoad == InitLoad /\ [][NextLoad]_vars

\* The four field updates on a record of the current version, on a version 1
\* record and on an id that has no record.
CurrentRecord(id) == [present |-> TRUE, filename |-> id, data |-> "d1", opacity |-> 0,
                      visible |-> "false", groupId |-> "g1", timestamp |-> 0]
UpdateDbs ==
  {[id \in OverlayIds |-> IF id \in CallerIds THEN r ELSE NoRecord] :
     r \in {CurrentRecord("a"), LegacyRecord("a")}}

InitUpdate ==
  /\ InitBridge /\ InitEq /\ InitScreen /\ InitLifeVars /\ InitDrive /\ InitLocation /\ InitAuth /\ InitFix /\ InitSyncWith({}, {}) /\ InitGroupsWith(EmptyGroupDb)
  /\ \E d \in UpdateDbs : InitStoreWith(d)

UpdateCalls ==
  UNION {{updateOverlayOpacityCall(id, 50), updateOverlayVisibilityCall(id, "true"),
          updateOverlayGroupCall(id, "default"), updateOverlayFilenameCall(id, "renamed")} :
         id \in OverlayIds}

NextUpdate ==
  \/ \E c \in UpdateCalls : CallerCalls(c) /\ UNCHANGED otherThanStore
  \/ \E i \in 1..MaxQueue : DbOpened(i) /\ UNCHANGED otherThanStore
  \/ \E i \in 1..MaxQueue : DbOpenFailed(i) /\ UNCHANGED otherThanStore
  \/ \E i \in 1..MaxQueue : DbGet(i) /\ UNCHANGED otherThanStore
  \/ \E i \in 1..MaxQueue : DbComplete(i) /\ UNCHANGED otherThanStore
  \/ \E i \in 1..MaxQueue : DbTxFailed(i) /\ UNCHANGED otherThanStore

SpecUpdate == InitUpdate /\ [][NextUpdate]_vars

\* The map screen on web: storage is empty or holds an overlay of an earlier session.
otherThanScreen == <<bridgeVars, wv, currentTileSource, lastHandled, webResult, wvResult, lifeVars,
                     groupVars, displayed, saveCalled, driveVars, syncVars, locVars, authVars, fixVars>>
otherThanRestore == <<bridgeVars, wv, currentTileSource, lastHandled, webResult, wvResult, lifeVars,
                      groupDb, groupQueue, displayed, saveCalled, driveVars, syncVars, locVars, authVars, fixVars>>

InitScreenSpec ==
  /\ InitBridge /\ InitEq /\ InitScreen /\ InitLifeVars /\ InitDrive /\ InitLocation /\ InitAuth /\ InitFix /\ InitSyncWith({}, {}) /\ InitGroupsWith(EmptyGroupDb)
  /\ \E d \in {EmptyDb, StoredDb} : InitStoreWith(d)

NextScreen ==
  \/ handleMapLoaded /\ UNCHANGED otherThanScreen
  \/ \E ok \in BOOLEAN : RestoreGroupsLoaded(ok) /\ UNCHANGED otherThanRestore
  \/ RestoreOverlaysLoaded /\ UNCHANGED otherThanScreen
  \/ \E outcome \in AddOutcomes : RestoreAdded(outcome) /\ UNCHANGED otherThanScreen
  \/ \E id \in ScreenIds, data \in DataVals : ImportPicked(id, data) /\ UNCHANGED otherThanScreen
  \/ \E i \in 1..MaxImports : ImportRead(i) /\ UNCHANGED otherThanScreen
  \/ \E i \in 1..MaxImports, outcome \in AddOutcomes : ImportAdded(i, outcome) /\ UNCHANGED otherThanScreen
  \/ \E id \in ScreenIds : handleRemoveOverlay(id) /\ UNCHANGED otherThanScreen
  \/ \E id \in ScreenIds, o \in Opacities : handleOverlayOpacityChange(id, o) /\ UNCHANGED otherThanScreen
  \/ \E id \in ScreenIds : handleToggleOverlayVisibility(id) /\ UNCHANGED otherThanScreen
  \/ \E id \in ScreenIds, g \in GroupIds : handleMoveOverlayToGroup(id, g) /\ UNCHANGED otherThanScreen
  \/ \E i \in 1..MaxQueue : ScreenDb(i) /\ UNCHANGED otherThanScreen

SpecScreen == InitScreenSpec /\ [][NextScreen]_vars

\* The map screen's group list on web: storage as an earlier session left it.
otherThanGroups == <<bridgeVars, wv, currentTileSource, lastHandled, webResult, wvResult, lifeVars,
                     displayed, saveCalled, driveVars, syncVars, locVars, authVars, fixVars>>

\* A group created and kept by an earlier session; the default group was never saved.
StoredGroupOnly ==
  [EmptyGroupDb EXCEPT !["g1"] = [present |-> TRUE, name |-> "n1", expanded |-> TRUE, order |-> 1]]

\* The same after the default group was collapsed, which saves it.
StoredGroupAndDefault ==
  [StoredGroupOnly EXCEPT !["default"] = [present |-> TRUE, name |-> DEFAULT_GROUP.name,
                                          expanded |-> FALSE, order |-> DEFAULT_GROUP_ORDER]]

HandledGroupIds == {"default", "g1", GroupIdAt(0)}
\* The group has a header in the panel, where its handlers are invoked.
GroupListed(id) == \E i \in 1..Len(overlayGroups) : overlayGroups[i].id = id
GroupNames == {"  ", "n2"}

InitGroups ==
  /\ InitBridge /\ InitEq /\ InitScreen /\ InitLifeVars /\ InitDrive /\ InitLocation /\ InitAuth /\ InitFix /\ InitSyncWith({}, {})
  /\ \E s \in {<<EmptyDb, EmptyGroupDb>>, <<StoredDb, StoredGroupOnly>>,
               <<StoredDb, StoredGroupAndDefault>>} :
       InitStoreWith(s[1]) /\ InitGroupsWith(s[2])

NextGroups ==
  \/ handleMapLoaded /\ UNCHANGED otherThanScreen
  \/ \E ok \in BOOLEAN : RestoreGroupsLoaded(ok) /\ UNCHANGED otherThanRestore
  \/ RestoreOverlaysLoaded /\ UNCHANGED otherThanScreen
  \/ \E outcome \in AddOutcomes : RestoreAdded(outcome) /\ UNCHANGED otherThanScreen
  \/ \E i \in 1..MaxQueue : ScreenDb(i) /\ UNCHANGED otherThanScreen
  \/ \E g \in HandledGroupIds : GroupListed(g) /\ handleToggleGroupExpanded(g) /\ UNCHANGED otherThanGroups
  \/ \E n \in GroupNames : handleCreateGroup(n) /\ UNCHANGED otherThanGroups
  \/ \E g \in HandledGroupIds, n \in GroupNames : GroupListed(g) /\ handleRenameGroup(g, n)
                                                    /\ UNCHANGED otherThanGroups
  \/ \E g \in HandledGroupIds : GroupListed(g) /\ handleDeleteGroup(g) /\ UNCHANGED otherThanGroups
  \/ \E id \in ScreenIds, g \in HandledGroupIds : GroupListed(g) /\ handleMoveOverlayToGroup(id, g)
                                                   /\ UNCHANGED otherThanScreen
  \/ GroupDbComplete /\ UNCHANGED otherThanGroups
  \/ GroupDbFailed /\ UNCHANGED otherThanGroups

SpecGroups == InitGroups /\ [][NextGroups]_vars

\* The group panel rendered from any group list with one default group.
otherThanPanel == <<bridgeVars, eqVars, storeVars, screenVars, lifeVars, groupDb, groupQueue,
                    saveCalled, driveVars, syncVars, locVars, authVars, fixVars>>

PanelGroupIds == {"A", "B", "C"}
PanelOrders == {1, 5}
DefaultOrders == {0, DEFAULT_GROUP_ORDER}

\* The lists of at most n groups with distinct ids, in every insertion order.
RECURSIVE ListsOver(_, _)
ListsOver(ids, n) ==
  IF n = 0 THEN {<<>>}
  ELSE {<<>>} \cup
       UNION {UNION {{<<OverlayGroup(id, id, TRUE, o)>> \o rest : rest \in ListsOver(ids \ {id}, n - 1)} :
                       o \in (IF id = "default" THEN DefaultOrders ELSE PanelOrders)} :
                id \in ids}

GroupLists ==
  {l \in ListsOver(PanelGroupIds \cup {"default"}, MaxGroups) :
     \E i \in 1..Len(l) : l[i].id = "default"}

InitPanel ==
  /\ InitBridge /\ InitEq /\ InitStoreWith(EmptyDb) /\ InitScreen /\ InitLifeVars /\ InitDrive /\ InitLocation /\ InitAuth /\ InitFix /\ InitSyncWith({}, {})
  /\ overlayGroups \in GroupLists
  /\ groupDb = EmptyGroupDb
  /\ groupQueue = <<>>
  /\ displayed = <<>>

\* The panel renders sortedGroups.map(...).
RenderPanel ==
  /\ displayed' = sortedGroups(overlayGroups)
  /\ UNCHANGED overlayGroups

\* setOverlayGroups with another list re-renders the panel.
SetOverlayGroups(list) ==
  /\ overlayGroups' = list
  /\ displayed' = sortedGroups(list)

NextPanel ==
  \/ RenderPanel /\ UNCHANGED otherThanPanel
  \/ \E list \in GroupLists : SetOverlayGroups(list) /\ UNCHANGED otherThanPanel

SpecPanel == InitPanel /\ [][NextPanel]_vars

\* The remote file service module under concurrent calls, sign-in and sign-out.
otherThanDrive == <<bridgeVars, eqVars, storeVars, screenVars, lifeVars, groupVars, displayed,
                    saveCalled, syncVars, locVars, authVars, fixVars>>

NextDrive ==
  \/ signIn /\ UNCHANGED otherThanDrive
  \/ \E ok \in BOOLEAN : TokenResponse(ok) /\ UNCHANGED otherThanDrive
  \/ \E ok \in BOOLEAN : UserInfoResponse(ok) /\ UNCHANGED otherThanDrive
  \/ signOut /\ UNCHANGED otherThanDrive
  \/ \E p \in DriveProcs, op \in DriveOps : DriveCall(p, op) /\ UNCHANGED otherThanDrive
  \/ \E p \in DriveProcs, status \in Statuses : SearchResponse(p, status) /\ UNCHANGED otherThanDrive
  \/ \E p \in DriveProcs, status \in Statuses : CreateResponse(p, status) /\ UNCHANGED otherThanDrive
  \/ \E p \in DriveProcs, status \in Statuses : OpResponse(p, status) /\ UNCHANGED otherThanDrive

SpecDrive == Init /\ [][NextDrive]_vars

\* Sync passes between any local and remote file sets, each remote call succeeding or failing.
otherThanSync == <<bridgeVars, eqVars, storeVars, screenVars, lifeVars, groupVars, displayed,
                   saveCalled, driveVars, locVars, authVars, fixVars>>

InitSyncSpec ==
  /\ InitBridge /\ InitEq /\ InitStoreWith(EmptyDb) /\ InitScreen /\ InitLifeVars /\ InitDrive /\ InitLocation /\ InitAuth /\ InitFix
  /\ InitGroupsWith(EmptyGroupDb)
  /\ \E local \in SUBSET {"X", "Z"}, remote \in SUBSET {RemoteNameOf("Y"), RemoteNameOf("Z")} :
       InitSyncWith(local, remote)

NextSync ==
  \/ SyncStart /\ UNCHANGED otherThanSync
  \/ \E outcome \in ListOutcomes : ListResponse(outcome) /\ UNCHANGED otherThanSync
  \/ \E name \in LocalNames : UploadIssue(name) /\ UNCHANGED otherThanSync
  \/ \E ok \in BOOLEAN : UploadResponse(ok) /\ UNCHANGED otherThanSync
  \/ UploadsDone /\ UNCHANGED otherThanSync
  \/ \E file \in RemoteNames : DownloadIssue(file) /\ UNCHANGED otherThanSync
  \/ \E ok \in BOOLEAN : DownloadResponse(ok) /\ UNCHANGED otherThanSync
  \/ DownloadsDone /\ UNCHANGED otherThanSync
  \/ \E ok \in BOOLEAN : MetadataResponse(ok) /\ UNCHANGED otherThanSync

SpecSync == InitSyncSpec /\ [][NextSync]_vars

\* One in-process map instance and one content-view page, from construction to disposal.
otherThanLife == <<bridgeVars, wv, currentTileSource, lastHandled, webResult, wvResult,
                   storeVars, screenVars, groupVars, displayed, saveCalled, driveVars, syncVars, locVars, authVars, fixVars>>

InitLife ==
  /\ InitBridge /\ InitStoreWith(EmptyDb) /\ InitScreen /\ InitLifeVars /\ InitDrive /\ InitLocation /\ InitAuth /\ InitFix /\ InitSyncWith({}, {})
  /\ InitGroupsWith(EmptyGroupDb)
  /\ web = NewMap
  /\ wv = NewMap
  /\ currentTileSource = "osm"
  /\ lastHandled = TRUE
  /\ webResult = "void"
  /\ wvResult = "void"

NextLife ==
  \/ LifeLoad /\ UNCHANGED otherThanLife
  \/ \E id \in 1..MaxFrames : LifeFrame(id) /\ UNCHANGED otherThanLife
  \/ LifeDispose /\ UNCHANGED otherThanLife
  \/ \E p \in Coordinates : LifeUpdateLocation(p[1], p[2], NoAccuracy) /\ UNCHANGED otherThanLife
  \/ \E p \in Coordinates : LifeFlyToLocation(p[1], p[2], NoZoom) /\ UNCHANGED otherThanLife
  \/ LifeHideLocation /\ UNCHANGED otherThanLife
  \/ \E source \in {"pmtiles"} : LifeSetTileSource(source) /\ UNCHANGED otherThanLife
  \/ \E id \in OverlayIds, outcome \in AddOutcomes : LifeAddRasterOverlay(id, outcome) /\ UNCHANGED otherThanLife
  \/ \E id \in OverlayIds : LifeRemoveRasterOverlay(id) /\ UNCHANGED otherThanLife
  \/ PageLoad /\ UNCHANGED otherThanLife
  \/ PageFrame /\ UNCHANGED otherThanLife
  \/ PageDispose /\ UNCHANGED otherThanLife

SpecLife == InitLife /\ [][NextLife]_vars

\* The position source under its caller and the answers of the platform.
otherThanLocation == <<bridgeVars, eqVars, storeVars, screenVars, lifeVars, groupVars, displayed,
                       saveCalled, driveVars, syncVars, authVars, fixVars>>

NextLocation ==
  \/ \E c \in Starts : startTracking(c) /\ UNCHANGED otherThanLocation
  \/ \E c \in Starts, granted \in BOOLEAN : PermissionResponse(c, granted) /\ UNCHANGED otherThanLocation
  \/ \E c \in Starts, ok \in BOOLEAN : WatchResponse(c, ok) /\ UNCHANGED otherThanLocation
  \/ stopTracking /\ UNCHANGED otherThanLocation
  \/ HookUnmount /\ UNCHANGED otherThanLocation

SpecLocation == Init /\ [][NextLocation]_vars

\* signIn calls, the token client's callbacks and signOut.
otherThanAuth == <<bridgeVars, eqVars, storeVars, screenVars, lifeVars, groupVars, displayed,
                   saveCalled, syncVars, locVars, fixVars>>

NextAuth ==
  \/ \E c \in SignIns : AuthSignIn(c) /\ UNCHANGED otherThanAuth
  \/ \E r \in SignIns, ok \in BOOLEAN : AuthTokenCallback(r, ok) /\ UNCHANGED otherThanAuth
  \/ \E r \in SignIns, ok \in BOOLEAN : AuthUserInfo(r, ok) /\ UNCHANGED otherThanAuth
  \/ signOut /\ UNCHANGED otherThanDrive

SpecAuth == Init /\ [][NextAuth]_vars

\* Fixes arriving from the position source while the map loads and after.
otherThanFixes == <<bridgeVars, eqVars, storeVars, screenVars, lifeVars, groupVars, displayed,
                    saveCalled, driveVars, syncVars, authVars>>
otherThanEffect == <<bridgeVars, wv, currentTileSource, lastHandled, webResult, wvResult, lifeVars,
                     groupVars, displayed, saveCalled, driveVars, syncVars, authVars>>

NextFix ==
  \/ \E c \in Starts : startTracking(c) /\ UNCHANGED otherThanLocation
  \/ \E c \in Starts : PermissionResponse(c, TRUE) /\ UNCHANGED otherThanLocation
  \/ \E c \in Starts : WatchResponse(c, TRUE) /\ UNCHANGED otherThanLocation
  \/ \E c \in Starts : FixReceived(c) /\ UNCHANGED otherThanFixes
  \/ handleMapLoaded /\ UNCHANGED otherThanScreen
  \/ LocationEffect /\ UNCHANGED otherThanEffect

SpecFix == Init /\ [][NextFix]_vars

\* The pulse loops of both maps over more than one full swing of the radius.
MaxPulseFrames == 50

NextPulse ==
  \/ LifeLoad /\ UNCHANGED otherThanLife
  \/ \E id \in 1..MaxPulseFrames : LifeFrameWithin(id, MaxPulseFrames) /\ UNCHANGED otherThanLife
  \/ PageLoad /\ UNCHANGED otherThanLife
  \/ PageFrameWithin(MaxPulseFrames) /\ UNCHANGED otherThanLife

SpecPulse == InitLife /\ [][NextPulse]_vars

\* =========================================================================
\* Claims
\* =========================================================================

\* C1: a bridged addRasterOverlay call whose command is never answered
\* resolves to null when its timer fires, and an 'overlayAdded' message that
\* arrives after that timeout changes nothing (no promise is resolved, no
\* state changes).
C1_TimeoutNullLateIgnored ==
  /\ [](\A c \in Calls : (timer[c] = "fired" /\ ~delivered[c]) =>
                           (pstate[c] = "settled" /\ pvalue[c] = 0))
  /\ [][\A k \in Calls : (timer[k] = "fired" /\ ~delivered[k] /\ delivered'[k]) =>
                           UNCHANGED <<overlayResolveRef, pstate, pvalue, resolveCalls>>]_vars

\* C2: each call's promise is resolved only by the response to its own
\* command or by its own timeout, and the timer of one call never consumes
\* the resolver of another call.
C2_OwnResponseOrOwnTimeout ==
  \A c \in Calls :
    /\ pstate[c] = "settled" => pvalue[c] \in {0, c}
    /\ slotTakenBy[c] \in {0, c}

\* C3: every bridged addRasterOverlay call is resolved, exactly once, no later
\* than the firing of its own timer; no promise stays pending after it.
C3_ResolvedByOwnTimer ==
  \A c \in Calls : timer[c] = "fired" => (pstate[c] = "settled" /\ resolveCalls[c] = 1)

\* C4: every command issued through the bridge produces the same render state
\* and result as the same command on the in-process handle, and every command
\* type the bridged handle sends has a case in the content view.
C4_SameContract ==
  /\ web = wv
  /\ webResult = wvResult
  /\ lastHandled

\* C5: when the in-process addRasterOverlay returns null, the render state
\* equals the state before the call.
C5_NullLeavesNoPartialState ==
  [][webResult' = "" => web' = web]_vars

\* The overlay ids the renderer holds a layer for, and the ids the store holds
\* a record for.
RendererOverlayIds(m) == {id \in OverlayIds : getLayer(m, LayerId(id))}
StoreIds == {id \in OverlayIds : db[id].present}

\* C6: on web, whenever nothing is in flight (no store call, no import, the
\* restore effect has ended), the ids of the overlay layers in the renderer
\* are exactly the ids of the records in the Overlay Store.
C6_RendererMatchesStore == Quiescent => RendererOverlayIds(web) = StoreIds

\* C7: once the user has removed an overlay and everything in flight has
\* completed without a rejected store call, the overlay has no layer and no
\* source in the renderer, no entry in the UI list and no record in the store.
C7_RemovedStaysRemoved ==
  \A id \in ScreenIds :
    (Quiescent /\ ~rejected /\ id \in removedIds) =>
      /\ ~getLayer(web, LayerId(id))
      /\ ~getSource(web, SourceId(id))
      /\ ~InList(id)
      /\ ~db[id].present

\* C8: concurrent field updates on one record all take effect: the record is
\* always the one obtained by applying the completed calls one after another,
\* so no update's write reverts a field written by another.
C8_ConcurrentUpdatesBothApply == db = seqStore

C8_Witness ==
  /\ "a" \in raced
  /\ dbQueue = <<>>
  /\ db["a"].present
  /\ db["a"].opacity = 50
  /\ db["a"].visible = "false"

\* C9: once every store call has completed and none was rejected, each overlay
\* in the UI list has a stored record whose opacity, visible and groupId equal
\* the values the list shows.
C9_PersistedMatchesUi ==
  (Quiescent /\ ~rejected) =>
    \A i \in 1..Len(overlays) :
      /\ db[overlays[i].id].present
      /\ normalizeOverlay(db[overlays[i].id], now).opacity = overlays[i].opacity
      /\ normalizeOverlay(db[overlays[i].id], now).visible = overlays[i].visible
      /\ normalizeOverlay(db[overlays[i].id], now).groupId = overlays[i].groupId

\* C10: a saveOverlay call that completes for an id the store already holds
\* leaves that record's payload, opacity, visible and groupId as they were.
C10_ReAddLeavesRecord ==
  [][\A i \in 1..Len(dbQueue) :
       (/\ dbQueue[i].op = "saveOverlay"
        /\ dbQueue' = RemoveAt(dbQueue, i)
        /\ db[dbQueue[i].id].present) =>
         /\ db'[dbQueue[i].id].data = db[dbQueue[i].id].data
         /\ db'[dbQueue[i].id].opacity = db[dbQueue[i].id].opacity
         /\ db'[dbQueue[i].id].visible = db[dbQueue[i].id].visible
         /\ db'[dbQueue[i].id].groupId = db[dbQueue[i].id].groupId]_vars

\* The number of entries of the UI list, and of records loadAllOverlays would
\* return, under one id.
ListCount(id) == Cardinality({i \in 1..Len(overlays) : overlays[i].id = id})
LoadedCount(id) ==
  LET recs == RecordsOf(db, OverlayIds, now)
  IN Cardinality({i \in 1..Len(recs) : recs[i].id = id})
LayerCount(m, id) == Cardinality({i \in 1..Len(m.layers) : m.layers[i] = LayerId(id)})

\* C11: whatever is imported, also a file whose id is already there, the store
\* returns at most one record per id, the renderer holds at most one layer per
\* id, fed by that id's source, and the UI list holds at most one entry per id.
C11_AtMostOnePerId ==
  \A id \in OverlayIds :
    /\ LoadedCount(id) <= 1
    /\ LayerCount(web, id) <= 1
    /\ getLayer(web, LayerId(id)) => (getSource(web, SourceId(id)) /\ web.layerSource[LayerId(id)] = SourceId(id))
    /\ ListCount(id) <= 1

\* Overlay a was in storage (its restored entry shows group g1) and a file of
\* the same id with other content was imported and saved.
C11_Witness ==
  /\ Quiescent
  /\ userActions = 1
  /\ db["a"].present /\ db["a"].data = "d2"
  /\ ListCount("a") = 1 /\ overlays[1].groupId = "g1"
  /\ getLayer(web, LayerId("a"))

\* Overlay id is registered with the renderer and listed as its record says.
RestoredAsStored(id) ==
  LET rec == normalizeOverlay(db[id], now)
  IN /\ getLayer(web, LayerId(id))
     /\ getSource(web, SourceId(id))
     /\ web.opacity[LayerId(id)] = rec.opacity
     /\ web.visibility[LayerId(id)] = (IF rec.visible = "true" THEN "visible" ELSE "none")
     /\ ListCount(id) = 1
     /\ \A i \in 1..Len(overlays) :
          overlays[i].id = id => (overlays[i].name = rec.filename /\ overlays[i].groupId = rec.groupId)

\* C12: once the map is Ready on web and the restore effect has ended (the user
\* having done nothing meanwhile), every record of the Overlay Store is
\* registered with the renderer with its stored opacity and visibility and
\* listed exactly once with its stored name and groupId.
C12_StoredOverlaysRestored ==
  (mapLoaded /\ restorePc = "done" /\ userActions = 0) =>
    \A id \in OverlayIds : db[id].present => RestoredAsStored(id)

\* C13: a command issued on the in-process handle before the 'load' event
\* leaves the render state as the map's construction made it.
C13_PreReadyCommandsDropped == life = "created" => web = NewMap

OverlayLayerPositions(m) ==
  {i \in 1..Len(m.layers) : \E id \in OverlayIds : m.layers[i] = LayerId(id)}
LocationLayerPositions(m) ==
  {i \in 1..Len(m.layers) : m.layers[i] \in Range(LocationLayers)}

\* C15: in every render state of the in-process map every overlay layer is
\* below the three location layers, whatever was added or removed, before or
\* after the location layers were registered.
C15_OverlaysBelowLocation ==
  \A i \in OverlayLayerPositions(web), j \in LocationLayerPositions(web) : i < j

\* Two overlays are registered on a Ready map.
C15_Witness ==
  /\ life = "ready"
  /\ Cardinality(OverlayLayerPositions(web)) = 2
  /\ Cardinality(LocationLayerPositions(web)) = 3

\* The basemap layers shown, and the layers that belong to a source value.
BasemapLayers == Range(allRasterLayers) \cup Range(PMTILES_LAYER_IDS)
VisibleBasemap(m) == {l \in BasemapLayers : getLayer(m, l) /\ m.visibility[l] = "visible"}
LayersOfSource(source) ==
  IF source = "pmtiles" THEN Range(PMTILES_LAYER_IDS)
  ELSE IF source = "gsi-pale" THEN {"gsi-pale-layer"}
  ELSE IF source = "gsi-photo" THEN {"gsi-photo-layer"}
  ELSE IF source = "gsi-hillshade" THEN {"gsi-hillshade-layer"}
  ELSE {"osm-raster-layer"}

\* C16: on a Ready map, in-process and in the content view, the visible basemap
\* layers are exactly the layers of the source selected last (all 13 vector
\* layers for pmtiles, the one raster layer otherwise), and the OSM raster
\* layer for a value outside the enumeration.
C16_ExactlyOneBasemap ==
  /\ VisibleBasemap(web) = LayersOfSource(currentTileSource)
  /\ VisibleBasemap(wv) = LayersOfSource(currentTileSource)

\* The positions of the screen's group list that hold the given id.
GroupPositions(id) == {i \in 1..Len(overlayGroups) : overlayGroups[i].id = id}

\* C17: after any sequence of restore, create, rename, expand-toggle and delete
\* operations the group list holds exactly one group with id "default", and
\* handleDeleteGroup("default") changes neither the group list, the overlays
\* nor the stores.
C17_ExactlyOneDefaultGroup ==
  /\ [](Cardinality(GroupPositions("default")) = 1)
  /\ [][handleDeleteGroup("default") =>
          UNCHANGED <<overlayGroups, overlays, db, dbQueue, groupDb, groupQueue>>]_vars

\* The stored groups were restored without a stored default, a group was
\* created behind them and every pending group write has been handled.
C17_Witness ==
  /\ restorePc = "done"
  /\ userActions = MaxUserActions
  /\ groupQueue = <<>>
  /\ Len(overlayGroups) = 3
  /\ GroupPositions("default") = {3}
  /\ groupDb[GroupIdAt(0)].present
  /\ ~groupDb["default"].present

\* C18: deleting a non-default group re-parents its overlays: once the restore
\* has ended and every pending write has completed without a failure, no
\* overlay of the deleted group g1 keeps its id as groupId, neither in the list
\* nor in the Overlay Store.
C18_DeleteGroupReparentsMembers ==
  (/\ Quiescent
   /\ groupQueue = <<>>
   /\ ~rejected
   /\ GroupPositions("g1") = {}
   /\ ~groupDb["g1"].present)
  => /\ \A i \in 1..Len(overlays) : overlays[i].groupId # "g1"
     /\ \A id \in OverlayIds : db[id].present => db[id].groupId # "g1"

\* The ids of the rendered headers, top to bottom.
DisplayedIds == [i \in 1..Len(displayed) |-> displayed[i].id]

\* C19: the rendered group order lists the non-default groups in ascending
\* order and the default group last, whatever the insertion order and the
\* default group's own order value; A(5), B(1), default(9999) render as
\* [B, A, default].
C19_DefaultGroupSortsLast ==
  displayed # <<>> =>
    /\ Len(displayed) = Len(overlayGroups)
    /\ \A i \in 1..Len(overlayGroups) : \E j \in 1..Len(displayed) : displayed[j] = overlayGroups[i]
    /\ displayed[Len(displayed)].id = "default"
    /\ \A i, j \in 1..(Len(displayed) - 1) : i < j => displayed[i].order <= displayed[j].order
    /\ (\A i \in 1..Len(overlayGroups) :
          overlayGroups[i] \in {OverlayGroup("A", "A", TRUE, 5), OverlayGroup("B", "B", TRUE, 1),
                                OverlayGroup("default", "default", TRUE, DEFAULT_GROUP_ORDER)})
       /\ Len(overlayGroups) = 3
       => DisplayedIds = <<"B", "A", "default">>

\* A list whose default group was inserted first with the smallest order is
\* rendered with it last.
C19_Witness ==
  /\ Len(overlayGroups) = 3
  /\ overlayGroups[1].id = "default"
  /\ overlayGroups[1].order = 0
  /\ overlayGroups[2] = OverlayGroup("A", "A", TRUE, 5)
  /\ overlayGroups[3] = OverlayGroup("B", "B", TRUE, 1)
  /\ DisplayedIds = <<"B", "A", "default">>

\* C20: on an empty store, saveOverlay(id, name, bytes, 0.8, true, "default")
\* followed by loadAllOverlays() yields exactly one record, with that id,
\* filename, payload, opacity, visible and groupId and a timestamp not earlier
\* than the time of the call.
C20_SaveThenLoadRoundTrip ==
  (saveCalled.called /\ db[saveCalled.id].present /\ loadResult.ready /\ loadResult.ok) =>
    /\ Len(loadResult.records) = 1
    /\ loadResult.records[1].id = saveCalled.id
    /\ loadResult.records[1].rec.filename = saveCalled.filename
    /\ loadResult.records[1].rec.data = saveCalled.data
    /\ loadResult.records[1].rec.opacity = DEFAULT_OPACITY
    /\ loadResult.records[1].rec.visible = "true"
    /\ loadResult.records[1].rec.groupId = "default"
    /\ loadResult.records[1].rec.timestamp >= saveCalled.at

\* The call was made after the clock had advanced, and the load returned
\* the one record with a later timestamp still.
C20_Witness ==
  /\ saveCalled.called
  /\ saveCalled.at > 0
  /\ loadResult.ready
  /\ loadResult.ok
  /\ Len(loadResult.records) = 1
  /\ loadResult.records[1].id = "b"
  /\ loadResult.records[1].rec.filename = "f2"
  /\ loadResult.records[1].rec.timestamp > saveCalled.at

\* The stored record of a returned one.
StoredOf(r) == db[r.id]

\* C21: loadAllOverlays returns for every stored record the defaults 0.8, true
\* and "default" where the record lacks opacity, visible or groupId and the
\* stored value otherwise (opacity 0 and visible false included), and the read
\* leaves the store as it is: the store changes only when a put completes.
C21_LegacyDefaultsOnRead ==
  /\ [][\A i \in 1..Len(dbQueue) :
          (/\ dbQueue[i].op = "loadAllOverlays"
           /\ dbQueue' = RemoveAt(dbQueue, i)
           /\ loadResult'.ready /\ loadResult'.ok) =>
            /\ db' = db
            /\ {loadResult'.records[k].id : k \in 1..Len(loadResult'.records)}
                 = {id \in OverlayIds : db[id].present}
            /\ \A k \in 1..Len(loadResult'.records) :
                 LET r == loadResult'.records[k]
                 IN /\ r.rec.opacity =
                         (IF StoredOf(r).opacity = UndefNum THEN 80 ELSE StoredOf(r).opacity)
                    /\ r.rec.visible =
                         (IF StoredOf(r).visible = UndefStr THEN "true" ELSE StoredOf(r).visible)
                    /\ r.rec.groupId =
                         (IF StoredOf(r).groupId = UndefStr THEN "default" ELSE StoredOf(r).groupId)
                    /\ r.rec.filename = StoredOf(r).filename
                    /\ r.rec.data = StoredOf(r).data]_vars
  /\ [][db' # db => \E i \in 1..Len(dbQueue) :
                      dbQueue[i].op \in UpdateOps /\ dbQueue' = RemoveAt(dbQueue, i)]_vars

\* A load returned record a with its stored opacity 0 and visible false and the
\* default group, and the version 1 record b with all three defaults; both are
\* stored as before.
C21_Witness ==
  /\ loadResult.ready /\ loadResult.ok
  /\ Len(loadResult.records) = 2
  /\ loadResult.records[1].rec.opacity = 0
  /\ loadResult.records[1].rec.visible = "false"
  /\ loadResult.records[1].rec.groupId = "default"
  /\ loadResult.records[2].rec.opacity = DEFAULT_OPACITY
  /\ loadResult.records[2].rec.visible = "true"
  /\ loadResult.records[2].rec.groupId = "default"
  /\ db["a"].opacity = 0 /\ db["a"].groupId = UndefStr
  /\ db["b"] = LegacyRecord("b")

\* C22: every failure of the Overlay Store rejects the call that hit it: no
\* call whose open request or transaction has ended in a failure is left with
\* its promise pending.
C22_FailuresRejectTheCall ==
  \A i \in 1..Len(dbQueue) : dbQueue[i].phase \in {"open", "tx", "got"}

\* C25: a 401 clears the cached credential (isSignedIn() false, getUser()
\* null) and fails the call, and from then on no remote call issues a network
\* request until a signIn has succeeded: after a 401, with no signIn in
\* progress and none resolved since, driveRequest issues nothing.
C25_NoRequestUntilSignedIn ==
  /\ [][\A p \in DriveProcs :
          (procs[p].error # "Token expired" /\ procs'[p].error = "Token expired") =>
            ~isSignedIn' /\ getUser' = "null" /\ procs'[p].pc = "failed"]_vars
  /\ [][expired /\ signInPc \notin {"requested", "userinfo"} => driveFetches' = driveFetches]_vars

\* C26: the application folder is created at most once and every operation
\* uses the same folder id.
C26_FolderCreatedOnce ==
  /\ folderCreates <= 1
  /\ \A p, q \in DriveProcs :
       procs[p].folderId # "null" /\ procs[q].folderId # "null" =>
         procs[p].folderId = procs[q].folderId

C24_MetadataAfterTransfers ==
  /\ [][(~metaWritten /\ metaWritten') =>
          /\ pendingCall.fn = "uploadMetadata"
          /\ ~transferFailed]_vars
  /\ [][(metaWritten /\ metaWritten') =>
          pendingCall'.fn \notin {"uploadPMTiles", "downloadPMTiles"}]_vars
  /\ [](transferFailed =>
          /\ syncPc = "failed"
          /\ ~metaWritten
          /\ pendingCall = NoCall
          /\ \A n \in uploaded : RemoteNameOf(n) \in remoteFiles
          /\ \A f \in downloaded : LocalNameOf(f) \in localFiles)

\* The upload of X succeeded, the download of Y failed and the pass is aborted.
C24_Witness ==
  /\ transferFailed
  /\ syncPc = "failed"
  /\ uploaded = {"X"}
  /\ RemoteNameOf("X") \in remoteFiles
  /\ "Y" \notin localFiles
  /\ ~metaWritten

\* The quotient accuracy / metersPerPixel in tenths of a pixel, held between
\* lo and hi.
Between(q, lo, hi) == IF q < lo THEN lo ELSE IF q > hi THEN hi ELSE q
PixelsOf(acc, lat, zoom) == (acc * 10000) \div MetersPerPixelMilli(lat, zoom)

\* C27 (as stated): after every updateLocation(lng, lat, accuracy) on a Ready
\* map the stored accuracyRadius is within [10, 100] pixels.
C27_RadiusNeverOutsideClamp ==
  [][\A p \in RadiusCoordinates, acc \in RadiusAccuracies :
       EqUpdateLocation(p[1], p[2], acc) =>
         /\ web'.locData.accuracyRadius \in (MIN_RADIUS * 10)..(MAX_RADIUS * 10)
         /\ wv'.locData.accuracyRadius \in (MIN_RADIUS * 10)..(MAX_RADIUS * 10)]_vars

\* C27 (amended): after every updateLocation(lng, lat, accuracy) on a Ready
\* map with an accuracy that is a number other than 0, the stored
\* accuracyRadius is accuracy / metersPerPixel held within [10, 100] pixels
\* (at latitude 35 and zoom 13: 10 for 1 m, 100 for 100000 m); with an
\* accuracy of null or 0 the stored accuracyRadius is 0.
C27_AccuracyRadiusClamped ==
  [][\A p \in RadiusCoordinates, acc \in RadiusAccuracies :
       EqUpdateLocation(p[1], p[2], acc) =>
         LET rWeb == web'.locData.accuracyRadius
             rWv == wv'.locData.accuracyRadius
         IN IF acc \in {NoAccuracy, 0}
              THEN rWeb = 0 /\ rWv = 0
              ELSE /\ rWeb = Between(PixelsOf(acc, p[2], web.camera.zoom), 100, 1000)
                   /\ rWv = Between(PixelsOf(acc, p[2], wv.camera.zoom), 100, 1000)
                   /\ (p[2] = 35 /\ web.camera.zoom = 13 /\ acc = 1) => rWeb = 100
                   /\ (p[2] = 35 /\ web.camera.zoom = 13 /\ acc = 100000) => rWeb = 1000
                   /\ (p[2] = 35 /\ wv.camera.zoom = 13 /\ acc = 1) => rWv = 100
                   /\ (p[2] = 35 /\ wv.camera.zoom = 13 /\ acc = 100000) => rWv = 1000]_vars

\* A fix of 100000 m at latitude 35 was stored at zoom 13 on both maps.
C27_Witness ==
  /\ web.locData = [coordinates |-> <<135, 35>>, accuracyRadius |-> MAX_RADIUS * 10]
  /\ wv.locData = [coordinates |-> <<135, 35>>, accuracyRadius |-> MAX_RADIUS * 10]
  /\ web.camera.zoom = DEFAULT_ZOOM
  /\ wv.camera.zoom = DEFAULT_ZOOM
  /\ web.visibility["user-location-accuracy"] = "visible"

\* C28: in every frame of the pulse animation, on either map, the halo radius
\* is within [16, 24] (in tenths of a pixel: within [160, 240]).
C28_PulseRadiusWithinBounds ==
  /\ pulseR \in PULSE_MIN..PULSE_MAX
  /\ pulseRadius \in PULSE_MIN..PULSE_MAX

\* What hideLocation leaves of render state m in render state h: the location
\* layers hidden, the user-location source and its point kept, every other
\* layer, source and the camera as before.
HiddenFrom(m, h) ==
  /\ \A l \in Range(LocationLayers) : h.visibility[l] = "none"
  /\ getSource(h, "user-location")
  /\ h.locData = m.locData
  /\ h.layers = m.layers
  /\ h.sources = m.sources
  /\ h.opacity = m.opacity
  /\ h.camera = m.camera
  /\ \A l \in DOMAIN m.visibility \ Range(LocationLayers) : h.visibility[l] = m.visibility[l]

\* C29: in every render state, on either handle, hideLocation hides the three
\* location layers, keeps the user-location source and its point, leaves the
\* basemap and overlay layers as they were, and a second hideLocation right
\* after it changes nothing.
C29_HideLocationIdempotent ==
  /\ [][EqHideLocation =>
          /\ HiddenFrom(web, web')
          /\ HiddenFrom(wv, wv')
          /\ webHideLocation(web') = web'
          /\ handleCommand(wv', bridgedHideLocation) = wv']_vars
  /\ [](/\ webHideLocation(webHideLocation(web)) = webHideLocation(web)
         /\ handleCommand(handleCommand(wv, bridgedHideLocation), bridgedHideLocation)
              = handleCommand(wv, bridgedHideLocation))

\* A position was shown and then hidden on both maps, beside an overlay.
C29_Witness ==
  /\ web.locData.coordinates \in Coordinates
  /\ wv.locData.coordinates \in Coordinates
  /\ \A l \in Range(LocationLayers) : web.visibility[l] = "none" /\ wv.visibility[l] = "none"
  /\ \E id \in OverlayIds : getLayer(web, LayerId(id))

\* Messages that are not valid JSON, or carry no type a branch of handleMessage names.
Discarded == {"unknown", "malformed", "null"}

\* C30: an inbound message that is not valid JSON or whose type is not
\* recognized invokes neither onMapMoved nor onMapLoaded, resolves no pending
\* addRasterOverlay promise, changes no state of the handle, and no exception
\* leaves handleMessage.
C30_UnrecognizedDiscarded ==
  [][\A type \in Discarded :
       handleOtherMessage(type) =>
         /\ UNCHANGED <<movedNotified, loadedNotified>>
         /\ UNCHANGED <<overlayResolveRef, pstate, pvalue, resolveCalls, timer, delivered, slotTakenBy>>
         /\ ~inbound'.threw]_vars

\* A message that is not JSON was handled while a call's promise was pending:
\* the promise is still pending and its resolver still in the ref.
C30_Witness ==
  /\ inbound.type = "malformed"
  /\ \E c \in Calls : pstate[c] = "pending" /\ overlayResolveRef = c
  /\ ~movedNotified /\ ~loadedNotified

\* Every layer of render state m draws from the style or from a source m has.
NoLayerWithoutSource(m) ==
  \A l \in Range(m.layers) : m.layerSource[l] = "style" \/ getSource(m, m.layerSource[l])

\* C31: removeRasterOverlay(id) leaves neither overlay-<id>-layer nor
\* overlay-<id>, changes no other source or layer, does nothing when both are
\* absent, passes through no state in which a layer's source is gone, and a
\* second call right after it changes nothing.
C31_RemoveLayerThenSource ==
  /\ [][\A id \in OverlayIds :
          EqRemoveRasterOverlay(id) =>
            /\ ~getLayer(web', LayerId(id))
            /\ ~getSource(web', SourceId(id))
            /\ web'.layers = SelectSeq(web.layers, LAMBDA l : l # LayerId(id))
            /\ web'.sources = web.sources \ {SourceId(id)}
            /\ \A l \in Range(web'.layers) :
                 /\ web'.visibility[l] = web.visibility[l]
                 /\ web'.layerSource[l] = web.layerSource[l]
            /\ web'.locData = web.locData /\ web'.camera = web.camera
            /\ (~getLayer(web, LayerId(id)) /\ ~getSource(web, SourceId(id))) => web' = web
            /\ \A i \in 1..2 : NoLayerWithoutSource(removeRasterOverlaySteps(web, id)[i])
            /\ webRemoveRasterOverlay(web', id) = web']_vars
  /\ [](NoLayerWithoutSource(web))

\* Overlay a was added after overlay b and then removed; b is still there.
C31_Witness ==
  /\ web.camera.fitted = HeaderBounds("a")
  /\ ~getLayer(web, LayerId("a"))
  /\ ~getSource(web, SourceId("a"))
  /\ getLayer(web, LayerId("b"))
  /\ getSource(web, SourceId("b"))

\* C32: flyToLocation(lng, lat, zoom) moves the camera of the in-process and
\* of the bridged map to the supplied zoom, whatever its value (0 included),
\* to zoom 16 when no zoom is supplied, in 1500 ms.
C32_FlyToSuppliedZoom ==
  [][\A p \in Coordinates, z \in ZoomArgs :
       EqFlyToLocation(p[1], p[2], z) =>
         LET target == [center |-> p, zoom |-> IF z = NoZoom THEN 16 ELSE z, duration |-> 1500]
             CameraOf(m) == [center |-> m.camera.center, zoom |-> m.camera.zoom,
                             duration |-> m.camera.duration]
         IN CameraOf(web') = target /\ CameraOf(wv') = target]_vars

\* The field a helper is for.
TargetOf(op) ==
  IF op = "updateOverlayOpacity" THEN "opacity"
  ELSE IF op = "updateOverlayVisibility" THEN "visible"
  ELSE IF op = "updateOverlayGroup" THEN "groupId"
  ELSE "filename"

\* A stored record as the store's readers see it: what a version 1 record lacks
\* reads as 0.8, true and "default".
AsRead(r) ==
  [r EXCEPT !.opacity = IF @ = UndefNum THEN 80 ELSE @,
            !.visible = IF @ = UndefStr THEN "true" ELSE @,
            !.groupId = IF @ = UndefStr THEN "default" ELSE @]

\* C33: a field update that completes on an existing record sets its target
\* field to the argument and leaves the record's payload, filename, opacity,
\* visible, groupId and timestamp, as read, and every other record as they
\* were; on an id without a record it creates none and resolves.
C33_UpdateChangesOnlyTarget ==
  [][\A i \in 1..MaxQueue :
       (DbComplete(i) /\ dbQueue[i].op \in UpdateOps) =>
         LET c == dbQueue[i]
             before == db[c.id]
             after == db'[c.id]
             Others == {"filename", "data", "opacity", "visible", "groupId", "timestamp"}
                         \ {TargetOf(c.op)}
         IN /\ \A id \in OverlayIds \ {c.id} : db'[id] = db[id]
            /\ dbQueue' = RemoveAt(dbQueue, i)
            /\ IF before.present
                 THEN /\ after.present
                      /\ after[TargetOf(c.op)] = c[TargetOf(c.op)]
                      /\ \A f \in Others : AsRead(after)[f] = AsRead(before)[f]
                 ELSE after = NoRecord]_vars

\* Record a of the current version was renamed and given opacity 0.5; it is
\* still hidden, in group g1, with its payload; an update of b, which has no
\* record, created none.
C33_Witness ==
  /\ db["a"] = [CurrentRecord("a") EXCEPT !.filename = "renamed", !.opacity = 50]
  /\ ~db["b"].present
  /\ dbQueue = <<>>

\* C34: at most one location subscription is active at any time, and while
\* stopTracking() or the unmount was not followed by a new startTracking call
\* no subscription is active and isTracking is false.
C34_AtMostOneSubscription ==
  /\ Cardinality(activeSubs) <= 1
  /\ stopped => (activeSubs = {} /\ ~isTracking)

\* C35: in every state getUser() non-null implies isSignedIn(), and when the
\* last signIn() rejected isSignedIn() is false.
C35_SessionMatchesSignIn ==
  /\ getUser # "null" => isSignedIn
  /\ signInPc = "rejected" => ~isSignedIn

\* C36: once the callback of a signIn call's token request has run to its
\* end, the call's promise is settled, and a promise is settled only by the
\* callback of its own call's request.
C36_SignInSettlesByOwnCallback ==
  /\ \A c \in SignIns : tokenRequest[c] = "done" => signInPromise[c] \in {"resolved", "rejected"}
  /\ \A c \in SignIns : settledBy[c] \in {0, c}

\* C37: every step that clears the credential (signOut, a request answered
\* 401) leaves no application-folder id cached.
C37_FolderIdClearedWithCredential ==
  [][(accessToken # "null" /\ accessToken' = "null") => appFolderId' = "null"]_vars

\* C38: in every state of the screen each listed overlay's groupId is the id
\* of a group in the group list.
C38_OverlayGroupListed ==
  \A i \in 1..Len(overlays) :
    \E k \in 1..Len(overlayGroups) : overlayGroups[k].id = overlays[i].groupId


\* The screen has rendered with its current state: the effect has run for the
\* present values of [location, mapLoaded].
Rendered == committed = [location |-> location, mapLoaded |-> mapLoaded]

\* C39 (as stated): on a loaded map every fix is forwarded: a fix is replaced
\* by a newer one only after it was passed to updateLocation.
C39_NoFixSuperseded ==
  [][(mapLoaded /\ location # 0 /\ location' # location)
       => \E i \in 1..Len(sent) : sent[i] = location]_vars

\* C39 (amended): no updateLocation is sent before the map is loaded; once the
\* map is loaded and the screen has rendered, the latest fix received so far is
\* the one forwarded last; fixes are forwarded in the order received, each at
\* most once (a fix replaced by a newer one before the screen rendered is not
\* forwarded).
C39_LatestFixForwarded ==
  /\ sent # <<>> => mapLoaded
  /\ \A i, j \in 1..Len(sent) : i < j => sent[i] < sent[j]
  /\ (Rendered /\ mapLoaded /\ location # 0)
       => (sent # <<>> /\ sent[Len(sent)] = location)

\* A fix received before the map was loaded was forwarded first once it was,
\* and a later fix after it.
C39_Witness ==
  /\ mapLoaded
  /\ Rendered
  /\ location = 2
  /\ sent = <<1, 2>>

====
